---------------------------- MODULE Spec2Model ----------------------------
(***************************************************************************)
(* Model of the Vayner client research tab of webcrawlerAI:                *)
(*   src/src/webui/webui_manager.py        (WebuiManager: the registry and *)
(*                                          the session fields)            *)
(*   src/src/webui/components/vayner_client_research_tab.py                *)
(*                                         (handle_submit, handle_stop,    *)
(*                                          handle_clear,                  *)
(*                                          run_vayner_research and its    *)
(*                                          step/done callbacks,           *)
(*                                          generate_live_report)          *)
(*                                                                         *)
(* Python strings are modelled as sequences of one-character strings, so   *)
(* that lower(), strip(), len(), "in" and the regular expressions of the   *)
(* source are computed and not assumed.                                    *)
(***************************************************************************)
EXTENDS Integers, Sequences, FiniteSets, TLC

(***************************************************************************)
(* Bounds of the model.                                                    *)
(***************************************************************************)
\* number of invocations of handle_submit (each is one submit stream)
MaxStreams == 2
\* number of step callbacks over all background tasks
MaxSteps == 2

\* fragments the update queue holds at most, where pushes are explored
MaxQueue == 3

(***************************************************************************)
(* Characters and strings.                                                 *)
(***************************************************************************)
LowerLetters ==
    {"a","b","c","d","e","f","g","h","i","j","k","l","m",
     "n","o","p","q","r","s","t","u","v","w","x","y","z"}

UpperLetters ==
    {"A","B","C","D","E","F","G","H","I","J","K","L","M",
     "N","O","P","Q","R","S","T","U","V","W","X","Y","Z"}

Digits == {"0","1","2","3","4","5","6","7","8","9"}

\* \w of Python's re for the characters the inputs use
WordChars == LowerLetters \cup UpperLetters \cup Digits \cup {"_"}

\* \s of Python's re, and the characters str.strip() removes
SpaceChars == {" ", "\n", "\t"}

\* str.lower() on one character
LowerChar(c) ==
    CASE c = "A" -> "a" [] c = "B" -> "b" [] c = "C" -> "c" [] c = "D" -> "d"
      [] c = "E" -> "e" [] c = "F" -> "f" [] c = "G" -> "g" [] c = "H" -> "h"
      [] c = "I" -> "i" [] c = "J" -> "j" [] c = "K" -> "k" [] c = "L" -> "l"
      [] c = "M" -> "m" [] c = "N" -> "n" [] c = "O" -> "o" [] c = "P" -> "p"
      [] c = "Q" -> "q" [] c = "R" -> "r" [] c = "S" -> "s" [] c = "T" -> "t"
      [] c = "U" -> "u" [] c = "V" -> "v" [] c = "W" -> "w" [] c = "X" -> "x"
      [] c = "Y" -> "y" [] c = "Z" -> "z" [] OTHER -> c

\* str.lower()
Lower(s) == [i \in 1..Len(s) |-> LowerChar(s[i])]

\* a strip that removes nothing
NoStrip(s) == s

\* str.strip(): leading and trailing whitespace removed
Strip(s) ==
    LET keep == {i \in 1..Len(s) : s[i] \notin SpaceChars}
    IN  IF keep = {} THEN <<>>
        ELSE LET lo == CHOOSE i \in keep : \A j \in keep : i <= j
                 hi == CHOOSE i \in keep : \A j \in keep : j <= i
             IN  SubSeq(s, lo, hi)

\* str.strip("|"): leading and trailing pipe characters removed
StripPipes(s) ==
    LET keep == {i \in 1..Len(s) : s[i] # "|"}
    IN  IF keep = {} THEN <<>>
        ELSE LET lo == CHOOSE i \in keep : \A j \in keep : i <= j
                 hi == CHOOSE i \in keep : \A j \in keep : j <= i
             IN  SubSeq(s, lo, hi)

\* w in s  (substring test)
Contains(s, w) ==
    \E i \in 1..(Len(s) - Len(w) + 1) : SubSeq(s, i, i + Len(w) - 1) = w

\* s.startswith(w)
StartsWith(s, w) == Len(s) >= Len(w) /\ SubSeq(s, 1, Len(w)) = w

\* any(x in s for x in ws)
ContainsAny(s, ws) == \E w \in ws : Contains(s, w)

\* s.split(sep) for a one-character separator: the pieces between separators
RECURSIVE SplitFrom(_, _, _, _)
SplitFrom(s, sep, i, cur) ==
    IF i > Len(s) THEN <<cur>>
    ELSE IF s[i] = sep THEN <<cur>> \o SplitFrom(s, sep, i + 1, <<>>)
    ELSE SplitFrom(s, sep, i + 1, Append(cur, s[i]))

Split(s, sep) == SplitFrom(s, sep, 1, <<>>)

\* [f(x) for x in seq if x.strip()] with f = strip:
\* the stripped, non-empty lines of a text
RECURSIVE StripNonEmpty(_)
StripNonEmpty(parts) ==
    IF parts = <<>> THEN <<>>
    ELSE IF Strip(Head(parts)) = <<>> THEN StripNonEmpty(Tail(parts))
    ELSE <<Strip(Head(parts))>> \o StripNonEmpty(Tail(parts))

\* [line.strip() for line in text.splitlines() if line.strip()]
\* (the inputs use "\n" as their only line boundary)
StrippedLines(text) == StripNonEmpty(Split(text, "\n"))

(***************************************************************************)
(* Regular expressions (re.search / re.match with re.IGNORECASE).          *)
(* A pattern is a sequence of elements: a literal, compared ignoring case, *)
(* or a character class with a greedy quantifier (min..1 or min..many)     *)
(* and the number of the group it captures (0: none).  Matching            *)
(* backtracks as Python's does: the longest repetition is tried first.     *)
(***************************************************************************)
Lit(text) == [lit |-> text, cls |-> {}, min |-> 0, many |-> FALSE, grp |-> 0]

Cls(chars, min, many, grp) ==
    [lit |-> <<>>, cls |-> chars, min |-> min, many |-> many, grp |-> grp]

NoCaps == <<<<>>, <<>>, <<>>>>

NoMatch == [ok |-> FALSE, caps |-> NoCaps]

\* the longest repetition of element e starting at position i of s
RunLen(s, i, e) ==
    LET stop == {j \in i..Len(s) : s[j] \notin e.cls}
        end  == IF stop = {} THEN Len(s) + 1
                ELSE CHOOSE j \in stop : \A x \in stop : j <= x
    IN  IF e.many THEN end - i
        ELSE IF end - i >= 1 THEN 1 ELSE 0

RECURSIVE MatchFrom(_, _, _, _, _)
RECURSIVE TryLen(_, _, _, _, _, _)
\* the match of pat[k..] at position i of s, or NoMatch
MatchFrom(pat, s, i, k, caps) ==
    IF k > Len(pat) THEN [ok |-> TRUE, caps |-> caps]
    ELSE IF pat[k].lit # <<>>
         THEN IF /\ i + Len(pat[k].lit) - 1 <= Len(s)
                 /\ Lower(SubSeq(s, i, i + Len(pat[k].lit) - 1)) = pat[k].lit
              THEN MatchFrom(pat, s, i + Len(pat[k].lit), k + 1, caps)
              ELSE NoMatch
         ELSE TryLen(pat, s, i, k, caps, RunLen(s, i, pat[k]))

\* pat[k] repeated n times, then n-1 times, ... down to its minimum
TryLen(pat, s, i, k, caps, n) ==
    IF n < pat[k].min THEN NoMatch
    ELSE LET caps2 == IF pat[k].grp > 0
                      THEN [caps EXCEPT ![pat[k].grp] = SubSeq(s, i, i + n - 1)]
                      ELSE caps
             r == MatchFrom(pat, s, i + n, k + 1, caps2)
         IN  IF r.ok THEN r ELSE TryLen(pat, s, i, k, caps, n - 1)

\* re.match(pat, s): the match at the beginning of s
ReMatch(pat, s) == MatchFrom(pat, s, 1, 1, NoCaps)

\* re.search(pat, s): the leftmost match
ReSearch(pat, s) ==
    LET starts == {i \in 1..Len(s) : MatchFrom(pat, s, i, 1, NoCaps).ok}
    IN  IF starts = {} THEN NoMatch
        ELSE MatchFrom(pat, s, CHOOSE i \in starts : \A j \in starts : i <= j,
                       1, NoCaps)

W_keyword == <<"k","e","y","w","o","r","d">>
W_performance == <<"p","e","r","f","o","r","m","a","n","c","e">>
W_sov == <<"s","o","v">>

\* keyword[:\s]+([\w\- ]+)[,;\s]+performance[:\s]+([\w\-\.]+)[,;\s]+sov[:\s]+([\w\-\.]+)
RowPattern ==
    << Lit(W_keyword),
       Cls({":"} \cup SpaceChars, 1, TRUE, 0),
       Cls(WordChars \cup {"-", " "}, 1, TRUE, 1),
       Cls({",", ";"} \cup SpaceChars, 1, TRUE, 0),
       Lit(W_performance),
       Cls({":"} \cup SpaceChars, 1, TRUE, 0),
       Cls(WordChars \cup {"-", "."}, 1, TRUE, 2),
       Cls({",", ";"} \cup SpaceChars, 1, TRUE, 0),
       Lit(W_sov),
       Cls({":"} \cup SpaceChars, 1, TRUE, 0),
       Cls(WordChars \cup {"-", "."}, 1, TRUE, 3) >>

\* \|?\s*keyword\s*\|\s*performance\s*\|\s*sov\s*\|?
HeaderPattern ==
    << Cls({"|"}, 0, FALSE, 0),
       Cls(SpaceChars, 0, TRUE, 0),
       Lit(W_keyword),
       Cls(SpaceChars, 0, TRUE, 0),
       Lit(<<"|">>),
       Cls(SpaceChars, 0, TRUE, 0),
       Lit(W_performance),
       Cls(SpaceChars, 0, TRUE, 0),
       Lit(<<"|">>),
       Cls(SpaceChars, 0, TRUE, 0),
       Lit(W_sov),
       Cls(SpaceChars, 0, TRUE, 0),
       Cls({"|"}, 0, FALSE, 0) >>


(***************************************************************************)
(* The state: the fields of the WebuiManager object, the UI as the yielded *)
(* updates leave it, and the position of every running coroutine.          *)
(***************************************************************************)
VARIABLES
    id_to_component,            \* WebuiManager.id_to_component
    component_to_id,            \* WebuiManager.component_to_id
    lookup,                     \* outcome of the last get_component_by_id /
                                \* get_id_by_component / add_components call
    vayner_current_business,    \* WebuiManager.vayner_current_business
    vayner_chat_history,        \* WebuiManager.vayner_chat_history
    vayner_pdf_report,          \* WebuiManager.vayner_pdf_report
    vayner_screenshots,         \* WebuiManager.vayner_screenshots
    vayner_business_info,       \* WebuiManager.vayner_business_info
    vayner_keyword_data,        \* WebuiManager.vayner_keyword_data
    vayner_ranking_data,        \* WebuiManager.vayner_ranking_data
    vayner_keyword_table_rows,  \* WebuiManager.vayner_keyword_table_rows
    update_queue,               \* WebuiManager.update_queue
    vayner_agent,               \* WebuiManager.vayner_agent
    vayner_current_task,        \* WebuiManager.vayner_current_task
    tasks,                      \* the asyncio tasks created by create_task
    streams,                    \* the invocations of handle_submit
    stopper,                    \* the invocation of handle_stop
    clearer,                    \* the invocation of handle_clear
    yielded,                    \* what the handler that yielded last has yielded
    nsteps                      \* step callbacks run so far (bounded by MaxSteps)

registryVars == <<id_to_component, component_to_id, lookup>>

factVars ==
    <<vayner_screenshots, vayner_business_info, vayner_keyword_data,
      vayner_ranking_data, vayner_keyword_table_rows>>

sessionVars ==
    <<vayner_current_business, vayner_chat_history, vayner_pdf_report,
      vayner_screenshots, vayner_business_info, vayner_keyword_data,
      vayner_ranking_data, vayner_keyword_table_rows, update_queue,
      vayner_agent, vayner_current_task>>

processVars == <<tasks, streams, stopper, clearer, yielded, nsteps>>

vars == <<registryVars, sessionVars, processVars>>

(***************************************************************************)
(* Component Registry (webui_manager.py).                                  *)
(* Names are sequences of name parts, "." being a part of its own, so that *)
(* the composed id f"{tab_name}.{comp_name}" is a concatenation.           *)
(***************************************************************************)
\* Python's None, for a component handle
None == "None"

\* f"{tab_name}.{comp_name}"
CompId(tab_name, comp_name) == tab_name \o <<".">> \o comp_name

\* dict[key] = value
DictSet(d, key, value) == [k \in DOMAIN d \cup {key} |-> IF k = key THEN value ELSE d[k]]

\* the body of the for loop of add_components, for the items of
\* components_dict from the i-th on; maps is <<id_to_component, component_to_id>>
RECURSIVE AddItems(_, _, _, _)
AddItems(maps, tab_name, items, i) ==
    IF i > Len(items) THEN maps
    ELSE LET comp_id == CompId(tab_name, items[i][1])
         IN  AddItems(<<DictSet(maps[1], comp_id, items[i][2]),
                        DictSet(maps[2], items[i][2], comp_id)>>,
                      tab_name, items, i + 1)

\* WebuiManager.get_component_by_id: dict.get(comp_id, None)
GetComponentById(reg, comp_id) ==
    IF comp_id \in DOMAIN reg THEN reg[comp_id] ELSE None

\* a reverse lookup by dict.get, which raises nothing for an absent handle
GetIdOrDefault(rev, comp) ==
    IF comp \in DOMAIN rev
    THEN [raised |-> FALSE, id |-> rev[comp]]
    ELSE [raised |-> FALSE, id |-> <<>>]

\* WebuiManager.get_id_by_component: component_to_id[comp], a KeyError when absent
GetIdByComponent(rev, comp) ==
    IF comp \in DOMAIN rev
    THEN [raised |-> FALSE, id |-> rev[comp]]
    ELSE [raised |-> TRUE, id |-> <<>>]

\* the tab names, component names and handles the registry is exercised with
RegTabs == {<<"a">>, <<"a", ".", "b">>}
RegNames == {<<"f">>, <<"b", ".", "f">>}
RegHandles == {"c1", "c2", "c3"}
RegIds == {CompId(t, n) : t \in RegTabs, n \in RegNames}

\* the components_dict arguments: one or two items with distinct names
RegDicts ==
    {<<<<n, h>>>> : n \in RegNames, h \in RegHandles}
    \cup {d \in {<<<<n1, h1>>, <<n2, h2>>>> :
                    n1 \in RegNames, n2 \in RegNames,
                    h1 \in RegHandles, h2 \in RegHandles} :
            d[1][1] # d[2][1]}

NoLookup == [op |-> "none", raised |-> FALSE, comp |-> None, id |-> <<>>]

\* WebuiManager.add_components(tab_name, components_dict)
AddComponents(tab_name, items) ==
    LET maps == AddItems(<<id_to_component, component_to_id>>, tab_name, items, 1)
    IN  /\ id_to_component' = maps[1]
        /\ component_to_id' = maps[2]
        /\ lookup' = [op |-> "add_components", raised |-> FALSE,
                      comp |-> None, id |-> <<>>]
        /\ UNCHANGED <<sessionVars, processVars>>

\* a call of get_component_by_id(comp_id)
ResolveCall(comp_id) ==
    /\ lookup' = [op |-> "get_component_by_id", raised |-> FALSE,
                  comp |-> GetComponentById(id_to_component, comp_id),
                  id |-> comp_id]
    /\ UNCHANGED <<id_to_component, component_to_id, sessionVars, processVars>>

\* a call of get_id_by_component(comp)
ReverseCall(comp) ==
    /\ lookup' = [op |-> "get_id_by_component",
                  raised |-> GetIdByComponent(component_to_id, comp).raised,
                  comp |-> comp,
                  id |-> GetIdByComponent(component_to_id, comp).id]
    /\ UNCHANGED <<id_to_component, component_to_id, sessionVars, processVars>>


(***************************************************************************)
(* The texts the model runs on.                                            *)
(***************************************************************************)
\* "business"
W_business == <<"b","u","s","i","n","e","s","s">>

\* "name"
W_name == <<"n","a","m","e">>

\* "address"
W_address == <<"a","d","d","r","e","s","s">>

\* "info"
W_info == <<"i","n","f","o">>

\* "details"
W_details == <<"d","e","t","a","i","l","s">>

\* "about"
W_about == <<"a","b","o","u","t">>

\* "score"
W_score == <<"s","c","o","r","e">>

\* "data"
W_data == <<"d","a","t","a">>

\* "ranking"
W_ranking == <<"r","a","n","k","i","n","g">>

\* "rank"
W_rank == <<"r","a","n","k">>

\* "geography"
W_geography == <<"g","e","o","g","r","a","p","h","y">>

\* "location"
W_location == <<"l","o","c","a","t","i","o","n">>

\* "Page URL: "
PageUrlPrefix == <<"P","a","g","e"," ","U","R","L",":"," ">>

\* ""
EmptyName == <<>>

\* "  "
BlankName == <<" "," ">>

\* " Acme "
PaddedName == <<" ","A","c","m","e"," ">>

\* "Bo"
PlainName == <<"B","o">>

\* "Business Name"
BusinessName == <<"B","u","s","i","n","e","s","s"," ","N","a","m","e">>

\* "Unknown Business"
UnknownBusiness ==
    <<"U","n","k","n","o","w","n"," ","B","u","s","i","n","e","s","s">>

\* "keyword: Ab, performance: 12, sov: 3"
RowThought ==
    <<"k","e","y","w","o","r","d",":"," ","A","b",","," ","p","e","r","f",
      "o","r","m","a","n","c","e",":"," ","1","2",","," ","s","o","v",":",
      " ","3">>

\* "Keyword: ab ; Performance: 99 ; SOV: 1"
DupResult ==
    <<"K","e","y","w","o","r","d",":"," ","a","b"," ",";"," ","P","e","r",
      "f","o","r","m","a","n","c","e",":"," ","9","9"," ",";"," ","S","O",
      "V",":"," ","1">>

\* "keyword: Cd, performance: 88, sov: 2"
OtherThought ==
    <<"k","e","y","w","o","r","d",":"," ","C","d",","," ","p","e","r","f",
      "o","r","m","a","n","c","e",":"," ","8","8",","," ","s","o","v",":",
      " ","2">>

\* "business name rank"
NoteThought ==
    <<"b","u","s","i","n","e","s","s"," ","n","a","m","e"," ","r","a","n",
      "k">>

\* "x/Business"
BusinessUrl == <<"x","/","B","u","s","i","n","e","s","s">>

\* "| Keyword | Performance | SOV |\n|---|---|---|\n| AB | 7 | 8 |\n| Ef | 5 | 6 |"
FinalTable ==
    <<"|"," ","K","e","y","w","o","r","d"," ","|"," ","P","e","r","f","o",
      "r","m","a","n","c","e"," ","|"," ","S","O","V"," ","|","\n","|","-",
      "-","-","|","-","-","-","|","-","-","-","|","\n","|"," ","A","B"," ",
      "|"," ","7"," ","|"," ","8"," ","|","\n","|"," ","E","f"," ","|"," ",
      "5"," ","|"," ","6"," ","|">>

\* "done\n\nkeyword: cd, performance: 1, sov: 1"
FinalLine ==
    <<"d","o","n","e","\n","\n","k","e","y","w","o","r","d",":"," ","c","d",
      ","," ","p","e","r","f","o","r","m","a","n","c","e",":"," ","1",",",
      " ","s","o","v",":"," ","1">>

\* "Ef"
ListKeyword == <<"E","f">>

\* "4"
ListPerformance == <<"4">>

\* "9"
ListSov == <<"9">>


(***************************************************************************)
(* Values handed over by the automation engine.                            *)
(*   a text that is None or "" is <<>> (the source tests them only for     *)
(*   truth); a screenshot is its identity and its length; a final result   *)
(*   is None, a str, a list of dicts or a dict.                            *)
(***************************************************************************)
NoneResult == [kind |-> "none", text |-> <<>>, items |-> <<>>, pairs |-> <<>>]

StrResult(text) == [kind |-> "str", text |-> text, items |-> <<>>, pairs |-> <<>>]

ListResult(items) == [kind |-> "list", text |-> <<>>, items |-> items, pairs |-> <<>>]

DictResult(pairs) == [kind |-> "dict", text |-> <<>>, items |-> <<>>, pairs |-> pairs]

\* bool(final_result)
Truthy(final_result) ==
    CASE final_result.kind = "str" -> final_result.text # <<>>
      [] final_result.kind = "list" -> final_result.items # <<>>
      [] final_result.kind = "dict" -> final_result.pairs # <<>>
      [] OTHER -> FALSE

NoShot == [name |-> "None", len |-> 0]

\* the names a user can submit
Identities == {EmptyName, BlankName, PaddedName, PlainName}

Action(thought, result) == [thought |-> thought, result |-> result]

\* the (state, output) pairs a step can report
StepOutputs ==
    { [actions |-> <<Action(RowThought, <<>>)>>,
       screenshot |-> [name |-> "shot1", len |-> 150],
       url |-> <<>>, text_content |-> <<>>],
      [actions |-> <<Action(<<>>, DupResult)>>,
       screenshot |-> [name |-> "shot2", len |-> 50],
       url |-> <<>>, text_content |-> <<>>],
      [actions |-> <<Action(NoteThought, <<>>), Action(OtherThought, RowThought)>>,
       screenshot |-> NoShot,
       url |-> BusinessUrl, text_content |-> <<>>],
      [actions |-> <<Action(<<"s","c","o","r","e"," ","5">>, <<>>)>>,
       screenshot |-> NoShot,
       url |-> <<>>, text_content |-> <<>>] }

\* the values history.final_result() can have
FinalResults ==
    { NoneResult,
      StrResult(FinalTable),
      StrResult(FinalLine),
      StrResult(<<"o","k","\n","\n","n","o">>),
      StrResult(<<"K","e","y","w","o","r","d"," ","S","O","V">>),
      StrResult(<<"a","|","b">>),
      StrResult(<<>>),
      \* a header of two cells and a data row of one cell
      StrResult(<<"K","e","y","w","o","r","d","|","P","e","r","f","o","r",
                  "m","a","n","c","e","\n","|","x">>),
      DictResult(<< <<ListKeyword, ListSov>> >>),
      \* a header and two data rows, without a separator row
      StrResult(<<"K","e","y","w","o","r","d","|","P","e","r","f","o","r",
                  "m","a","n","c","e","|","S","O","V","\n","|","G","h","|",
                  "1","|","2","|","\n","|","I","j","|","3","|","4","|">>),
      ListResult(<<[keyword |-> ListKeyword, performance |-> ListPerformance,
                    sov |-> ListSov],
                   [keyword |-> ListKeyword, performance |-> <<>>,
                    sov |-> ListSov]>>) }

(***************************************************************************)
(* Live Report Renderer: generate_live_report.                             *)
(* The document is the record of the parts of the HTML that vary: the      *)
(* name on the cover and on the second page, the result section and the    *)
(* rows of the keyword table (no rows: the table section is left out).     *)
(***************************************************************************)
\* text.split("\n\n")
RECURSIVE SplitBlankFrom(_, _, _)
SplitBlankFrom(s, i, cur) ==
    IF i > Len(s) THEN <<cur>>
    ELSE IF i < Len(s) /\ s[i] = "\n" /\ s[i + 1] = "\n"
         THEN <<cur>> \o SplitBlankFrom(s, i + 2, <<>>)
         ELSE SplitBlankFrom(s, i + 1, Append(cur, s[i]))

SplitBlank(s) == SplitBlankFrom(s, 1, <<>>)

\* paragraph.replace("\n", "<br>")
BreakLines(s) == [i \in 1..Len(s) |-> IF s[i] = "\n" THEN "<br>" ELSE s[i]]

\* [cell.strip() for cell in row.strip('|').split('|')]
Cells(row) ==
    LET parts == Split(StripPipes(row), "|")
    IN  [i \in 1..Len(parts) |-> Strip(parts[i])]

Section(kind, header, rows, text, paras, items, pairs) ==
    [kind |-> kind, header |-> header, rows |-> rows, text |-> text,
     paras |-> paras, items |-> items, pairs |-> pairs]

\* lines 375-379: is the final result likely a table
IsTable(final_result) ==
    /\ final_result.kind = "str"
    /\ LET lines == Split(Strip(final_result.text), "\n")
       IN  \/ \E i \in 1..Len(lines) : Contains(lines[i], <<"|">>)
           \/ \E i \in 1..Len(lines) :
                /\ Contains(Lower(lines[i]), W_keyword)
                /\ Contains(Lower(lines[i]), W_performance)

\* lines 389-394: the index of the header row, 0 when there is none
HeaderRowIndex(lines) ==
    LET hs == {i \in 1..Len(lines) :
                 \/ /\ Contains(Lower(lines[i]), W_keyword)
                    /\ Contains(Lower(lines[i]), W_performance)
                 \/ /\ Contains(Lower(lines[i]), W_keyword)
                    /\ Contains(Lower(lines[i]), W_sov)}
    IN  IF hs = {} THEN 0 ELSE CHOOSE i \in hs : \A j \in hs : i <= j

\* a table branch that gives up when it finds no header row
TableSectionStrict(final_result) ==
    LET lines == StrippedLines(final_result.text)
        h == HeaderRowIndex(lines)
    IN  IF h # 0
        THEN Section("table", Cells(lines[h]), <<>>, <<>>, <<>>, <<>>, <<>>)
        ELSE Section("raised", <<>>, <<>>, <<>>, <<>>, <<>>, <<>>)

\* lines 381-430: the final result formatted as a table
TableSection(final_result) ==
    LET lines == StrippedLines(final_result.text)
        h == HeaderRowIndex(lines)
        data_start == IF h + 1 <= Len(lines)
                         /\ Contains(lines[h + 1], <<"-", "-", "-">>)
                      THEN h + 2 ELSE h + 1
        data == SelectSeq(SubSeq(lines, data_start, Len(lines)),
                          LAMBDA row : Contains(row, <<"|">>))
    IN  IF h # 0
        THEN Section("table", Cells(lines[h]),
                     [i \in 1..Len(data) |-> Cells(data[i])],
                     <<>>, <<>>, <<>>, <<>>)
        ELSE Section("pre", <<>>, <<>>, final_result.text, <<>>, <<>>, <<>>)

\* lines 431-456: the final result formatted as text, list or mapping
TextSection(final_result) ==
    CASE final_result.kind = "str" ->
           LET ps == SelectSeq(SplitBlank(final_result.text),
                               LAMBDA q : Strip(q) # <<>>)
           IN  Section("paragraphs", <<>>, <<>>, <<>>,
                       [i \in 1..Len(ps) |-> BreakLines(ps[i])], <<>>, <<>>)
      [] final_result.kind = "list" ->
           Section("list", <<>>, <<>>, <<>>, <<>>, final_result.items, <<>>)
      [] OTHER ->
           Section("dict", <<>>, <<>>, <<>>, <<>>, <<>>, final_result.pairs)

\* a result section without the placeholder branch of lines 459-464
NoPlaceholder(final_result) == Section("none", <<>>, <<>>, <<>>, <<>>, <<>>, <<>>)

\* lines 372-464: the result section
ResultSection(final_result) ==
    IF Truthy(final_result)
    THEN IF IsTable(final_result) THEN TableSection(final_result)
         ELSE TextSection(final_result)
    ELSE Section("placeholder", <<>>, <<>>, <<>>, <<>>, <<>>, <<>>)

\* a renderer whose document also depends on something that is not among
\* its arguments: the length of the transcript at the moment of the call
RenderStamped(business_name, business_info, keyword_data, ranking_data, screenshots, keyword_table_rows, final_result) ==
    [cover |-> business_name,
     second |-> <<Len(vayner_chat_history)>>,
     result |-> ResultSection(final_result),
     keyword_table |-> keyword_table_rows]

\* a renderer whose second page also counts the notes and the screenshots
RenderWithNotes(business_name, business_info, keyword_data, ranking_data, screenshots, keyword_table_rows, final_result) ==
    [cover |-> business_name,
     second |-> <<business_name, Len(business_info), Len(keyword_data),
                  Len(ranking_data), Len(screenshots)>>,
     result |-> ResultSection(final_result),
     keyword_table |-> keyword_table_rows]

\* generate_live_report(business_name, business_info, keyword_data,
\*                      ranking_data, screenshots, keyword_table_rows, final_result)
GenerateLiveReport(business_name, business_info, keyword_data, ranking_data, screenshots, keyword_table_rows, final_result) ==
    [cover |-> business_name,
     second |-> business_name,
     result |-> ResultSection(final_result),
     keyword_table |-> keyword_table_rows]


\* a bucket that takes every note it is offered
AddNoteAlways(bucket, text) == Append(bucket, text)

(***************************************************************************)
(* Structured Fact Aggregator: the step callback and the done callback of  *)
(* run_vayner_research, as functions of the collections they update.       *)
(***************************************************************************)
\* an insertion of a new note in front of the notes already stored
AddNoteFirst(bucket, text) ==
    IF \E i \in 1..Len(bucket) : bucket[i] = text THEN bucket
    ELSE <<text>> \o bucket

\* if text not in bucket: bucket.append(text)
AddNote(bucket, text) ==
    IF \E i \in 1..Len(bucket) : bucket[i] = text THEN bucket
    ELSE Append(bucket, text)

\* an insertion that compares the keywords as written, case included
AddRowExact(rows, keyword, performance, sov) ==
    IF \E i \in 1..Len(rows) : rows[i].keyword = keyword
    THEN rows
    ELSE Append(rows, [keyword |-> keyword, performance |-> performance,
                       sov |-> sov])

\* if not any(row["keyword"].lower() == keyword.lower() for row in rows):
\*     rows.append({"keyword": keyword, "performance": performance, "sov": sov})
AddRow(rows, keyword, performance, sov) ==
    IF \E i \in 1..Len(rows) : Lower(rows[i].keyword) = Lower(keyword)
    THEN rows
    ELSE Append(rows, [keyword |-> keyword, performance |-> performance,
                       sov |-> sov])

\* lines 616-622 and 635-641: one action's thought and result, business bucket
BusinessOfAction(bucket, action) ==
    LET b1 == IF /\ action.thought # <<>>
                 /\ Contains(Lower(action.thought), W_business)
                 /\ ContainsAny(Lower(action.thought),
                                {W_name, W_address, W_info, W_details, W_about})
              THEN AddNote(bucket, action.thought) ELSE bucket
    IN  IF /\ action.result # <<>>
           /\ Contains(Lower(action.result), W_business)
           /\ Len(action.result) > 10
        THEN AddNote(b1, action.result) ELSE b1

\* lines 624-627 and 643-645: one action's thought and result, keyword bucket
KeywordOfAction(bucket, action) ==
    LET b1 == IF /\ action.thought # <<>>
                 /\ Contains(Lower(action.thought), W_keyword)
                 /\ ContainsAny(Lower(action.thought),
                                {W_performance, W_score, W_data})
              THEN AddNote(bucket, action.thought) ELSE bucket
    IN  IF /\ action.result # <<>>
           /\ Contains(Lower(action.result), W_keyword)
           /\ Len(action.result) > 10
        THEN AddNote(b1, action.result) ELSE b1

\* lines 629-632 and 647-649: one action's thought and result, ranking bucket
RankingOfAction(bucket, action) ==
    LET b1 == IF /\ action.thought # <<>>
                 /\ ContainsAny(Lower(action.thought),
                                {W_ranking, W_rank, W_geography, W_location})
              THEN AddNote(bucket, action.thought) ELSE bucket
    IN  IF /\ action.result # <<>>
           /\ Contains(Lower(action.result), W_rank)
           /\ Len(action.result) > 10
        THEN AddNote(b1, action.result) ELSE b1

\* lines 667-684: the row a field holds, appended unless its keyword is present
RowOfField(rows, field) ==
    LET m == ReSearch(RowPattern, field)
    IN  IF field # <<>> /\ m.ok
        THEN AddRow(rows, Strip(m.caps[1]), Strip(m.caps[2]), Strip(m.caps[3]))
        ELSE rows

\* for field in [thought, result] of one action
RowsOfAction(rows, action) ==
    RowOfField(RowOfField(rows, action.thought), action.result)

\* for action in output.action: acc = Op(acc, action)
RECURSIVE ForActions(_, _, _, _)
ForActions(Op(_, _), acc, actions, i) ==
    IF i > Len(actions) THEN acc
    ELSE ForActions(Op, Op(acc, actions[i]), actions, i + 1)

\* lines 594-603: the step's screenshot is kept when it is longer than 100
StepScreenshots(screenshots, out) ==
    IF out.screenshot.name # "None" /\ out.screenshot.len > 100
    THEN Append(screenshots, out.screenshot) ELSE screenshots

\* lines 615-655: business bucket after a step (actions, then the page URL)
StepBusinessInfo(bucket, out) ==
    LET b == ForActions(BusinessOfAction, bucket, out.actions, 1)
    IN  IF /\ out.url # <<>>
           /\ Contains(Lower(out.url), W_business)
           /\ ~ \E i \in 1..Len(b) : Contains(b[i], out.url)
        THEN Append(b, PageUrlPrefix \o out.url) ELSE b

\* lines 615-662: keyword bucket after a step (actions, then the page text)
StepKeywordData(bucket, out) ==
    LET b == ForActions(KeywordOfAction, bucket, out.actions, 1)
    IN  IF /\ out.text_content # <<>>
           /\ Contains(Lower(out.text_content), W_keyword)
           /\ Len(out.text_content) > 20
        THEN AddNote(b, out.text_content) ELSE b

\* lines 615-649: ranking bucket after a step
StepRankingData(bucket, out) == ForActions(RankingOfAction, bucket, out.actions, 1)

\* lines 664-684: keyword table rows after a step
StepRows(rows, out) == ForActions(RowsOfAction, rows, out.actions, 1)

\* line 695 reads the name history, which step_callback does not bind and
\* which no enclosing scope binds (history is a parameter of done_callback
\* and of generate_pdf_report only): evaluating it raises NameError, caught
\* by the except of line 708, so lines 688-706 have no effect
HistoryIsBound == FALSE

\* lines 829-850: the rows of a pipe table in the final result text
RECURSIVE TableRows(_, _, _)
TableRows(rows, lines, i) ==
    IF i > Len(lines) THEN rows
    ELSE LET cells == Cells(lines[i])
         IN  IF /\ StartsWith(lines[i], <<"|">>)
                /\ Len(cells) >= 3
                /\ cells[1] # <<>> /\ cells[2] # <<>> /\ cells[3] # <<>>
             THEN TableRows(AddRow(rows, cells[1], cells[2], cells[3]),
                            lines, i + 1)
             ELSE TableRows(rows, lines, i + 1)

\* lines 831-836: the 1-based index of the first header line, 0 when none
TableStart(lines) ==
    LET hs == {i \in 1..Len(lines) : ReMatch(HeaderPattern, lines[i]).ok}
    IN  IF hs = {} THEN 0 ELSE CHOOSE i \in hs : \A j \in hs : i <= j

\* lines 852-863: the rows of the "keyword: K, performance: P, sov: S" lines
RECURSIVE LineRows(_, _, _)
LineRows(rows, lines, i) ==
    IF i > Len(lines) THEN rows
    ELSE LineRows(RowOfField(rows, lines[i]), lines, i + 1)

\* lines 864-876: the rows of a list of dicts
RECURSIVE ItemRows(_, _, _)
ItemRows(rows, items, i) ==
    IF i > Len(items) THEN rows
    ELSE IF /\ items[i].keyword # <<>>
            /\ items[i].performance # <<>>
            /\ items[i].sov # <<>>
         THEN ItemRows(AddRow(rows, items[i].keyword, items[i].performance,
                              items[i].sov), items, i + 1)
         ELSE ItemRows(rows, items, i + 1)

\* lines 820-876: keyword table rows after the done callback
\* (table_start is 0-based in the source: table_start + 2 < len(lines) and
\* lines[table_start+2:] are TableStart + 1 < Len and the lines from
\* TableStart + 2 on here)
DoneRows(rows, final_result) ==
    IF ~Truthy(final_result) THEN rows
    ELSE CASE final_result.kind = "str" ->
                LET lines == StrippedLines(final_result.text)
                    t == TableStart(lines)
                    r1 == IF t # 0 /\ t + 1 < Len(lines)
                          THEN TableRows(rows, lines, t + 2) ELSE rows
                IN  LineRows(r1, lines, 1)
           [] final_result.kind = "list" -> ItemRows(rows, final_result.items, 1)
           [] OTHER -> rows


(***************************************************************************)
(* The UI: what a yielded update (a dict from component to gr.update)      *)
(* does to the components, and the Update Channel.                         *)
(***************************************************************************)
GrUpdate(has, value, visible, interactive) ==
    [has |-> has, value |-> value, visible |-> visible,
     interactive |-> interactive]

\* gr.update(value=v)
UValue(v) == GrUpdate({"value"}, v, TRUE, TRUE)

\* gr.update(value=v, visible=b)
UValueVisible(v, b) == GrUpdate({"value", "visible"}, v, b, TRUE)

\* gr.update(value=v, interactive=b)
UValueInteractive(v, b) == GrUpdate({"value", "interactive"}, v, TRUE, b)

\* gr.update(visible=b)
UVisible(b) == GrUpdate({"visible"}, <<>>, b, TRUE)

\* gr.update(interactive=b)
UInteractive(b) == GrUpdate({"interactive"}, <<>>, TRUE, b)

\* the empty dict
EmptyDict == <<>>

\* a merge that keeps the value a slot already has
DictSetDefault(update, pdf_updates) ==
    [h \in DOMAIN update \cup DOMAIN pdf_updates |->
        IF h \in DOMAIN update THEN update[h] ELSE pdf_updates[h]]

\* update.update(pdf_updates)
DictUpdate(update, pdf_updates) ==
    [h \in DOMAIN update \cup DOMAIN pdf_updates |->
        IF h \in DOMAIN pdf_updates THEN pdf_updates[h] ELSE update[h]]

\* a drain by update_queue.pop(), which takes the newest fragment first
RECURSIVE DrainNewestFirst(_, _, _)
DrainNewestFirst(queue, update, popped) ==
    IF queue = <<>>
    THEN [queue |-> queue, update |-> update, popped |-> popped]
    ELSE DrainNewestFirst(SubSeq(queue, 1, Len(queue) - 1),
                          DictUpdate(update, queue[Len(queue)]),
                          Append(popped, queue[Len(queue)]))

\* lines 1055-1057: while update_queue: update.update(update_queue.pop(0))
\* the queue, the merged update and the fragments in the order popped
RECURSIVE DrainAll(_, _, _)
DrainAll(queue, update, popped) ==
    IF queue = <<>>
    THEN [queue |-> queue, update |-> update, popped |-> popped]
    ELSE DrainAll(Tail(queue), DictUpdate(update, Head(queue)),
                  Append(popped, Head(queue)))

\* lines 700-706: the fragment a step callback pushes
ReportFragment(pdf_report_comp, report) ==
    [h \in {pdf_report_comp} |-> UValueVisible(report, TRUE)]

\* lines 700-706: update_queue.append(fragment), when the slot is registered
Push(queue, pdf_report_comp, report) ==
    IF pdf_report_comp # None
    THEN Append(queue, ReportFragment(pdf_report_comp, report))
    ELSE queue

(***************************************************************************)
(* The state after create_ui: the registry holds the components of the two *)
(* tabs, init_vayner_client_research has set the session fields.           *)
(***************************************************************************)
TabVayner == <<"vayner_client_research">>

\* tab_components of create_vayner_client_research_tab
VaynerItems ==
    << <<<<"chatbot">>, "chatbot">>,
       <<<<"business_name">>, "business_name">>,
       <<<<"run_button">>, "run_button">>,
       <<<<"stop_button">>, "stop_button">>,
       <<<<"clear_button">>, "clear_button">>,
       <<<<"browser_view">>, "browser_view">>,
       <<<<"pdf_report">>, "pdf_report">> >>

\* tab_components of create_documentation_tab
DocItems == << <<<<"doc_tabs">>, "doc_tabs">> >>

UiRegistry ==
    AddItems(AddItems(<<EmptyDict, EmptyDict>>, TabVayner, VaynerItems, 1),
             <<"documentation">>, DocItems, 1)

\* the document of a report that is None
NoReport ==
    [cover |-> <<>>, second |-> <<>>,
     result |-> Section("none", <<>>, <<>>, <<>>, <<>>, <<>>, <<>>),
     keyword_table |-> <<>>]

\* the updates one handler yields in one action, in the order yielded, and
\* the fragments the drain of handle_submit has popped for them
Yield(by, stream, updates, popped) ==
    [by |-> by, stream |-> stream, updates |-> updates, popped |-> popped]

NoYield == Yield("none", 0, <<>>, <<>>)

StreamIds == 1..MaxStreams

IdleStream ==
    [pc |-> "idle", name |-> <<>>, last_chat_len |-> 0, started |-> FALSE,
     terminal |-> FALSE]

NoTask == [status |-> "none", cancel_requested |-> FALSE]

SessionInit ==
    /\ vayner_current_business = UnknownBusiness
    /\ vayner_chat_history = <<>>
    /\ vayner_pdf_report = NoReport
    /\ vayner_screenshots = <<>>
    /\ vayner_business_info = <<>>
    /\ vayner_keyword_data = <<>>
    /\ vayner_ranking_data = <<>>
    /\ vayner_keyword_table_rows = <<>>
    /\ update_queue = <<>>
    /\ vayner_agent = [created |-> FALSE, stopped |-> FALSE]
    /\ vayner_current_task = 0
    /\ tasks = [s \in StreamIds |-> NoTask]
    /\ streams = [s \in StreamIds |-> IdleStream]
    /\ stopper = [pc |-> "idle", task |-> 0]
    /\ clearer = [pc |-> "idle", task |-> 0]
    /\ yielded = NoYield
    /\ nsteps = 0

Init ==
    /\ id_to_component = UiRegistry[1]
    /\ component_to_id = UiRegistry[2]
    /\ lookup = NoLookup
    /\ SessionInit


(***************************************************************************)
(* handle_submit and run_vayner_research: one submit stream per            *)
(* invocation.  A stream is suspended at a yield or at an await between    *)
(* two actions; its position is streams[s].pc:                             *)
(*   "idle"        not invoked yet                                         *)
(*   "placeholder" at the yield of line 1041                               *)
(*   "first"       at the yield of line 532                                *)
(*   "polling"     in the loop of lines 958-978                            *)
(*   "ended"       the generator has returned                              *)
(*   "raised"      an exception has left the generator                     *)
(***************************************************************************)
\* webui_manager.get_component_by_id("vayner_client_research.<name>")
Comp(name) == GetComponentById(id_to_component, CompId(TabVayner, <<name>>))

\* a dict literal {k1: v1, k2: v2, ...}: later keys replace earlier equal ones
RECURSIVE DictOf(_, _, _)
DictOf(d, items, i) ==
    IF i > Len(items) THEN d
    ELSE DictOf(DictSet(d, items[i][1], items[i][2]), items, i + 1)

ChatEntry(role, kind, name) == [role |-> role, kind |-> kind, name |-> name]

\* a terminal snapshot that leaves the report slot out
TerminalWithoutReport(report, chat) ==
    DictOf(EmptyDict,
           << <<Comp("run_button"), UValueInteractive("Research Client", TRUE)>>,
              <<Comp("stop_button"), UInteractive(FALSE)>>,
              <<Comp("chatbot"), UValue(chat)>> >>, 1)

\* lines 993-997 / 985-990: the terminal snapshot of a completed run
TerminalUpdate(report, chat) ==
    IF report.result.kind # "none"
    THEN DictOf(EmptyDict,
                << <<Comp("run_button"), UValueInteractive("Research Client", TRUE)>>,
                   <<Comp("stop_button"), UInteractive(FALSE)>>,
                   <<Comp("chatbot"), UValue(chat)>>,
                   <<Comp("pdf_report"), UValueVisible(report, TRUE)>> >>, 1)
    ELSE DictOf(EmptyDict,
                << <<Comp("run_button"), UValueInteractive("Research Client", TRUE)>>,
                   <<Comp("stop_button"), UInteractive(FALSE)>>,
                   <<Comp("chatbot"), UValue(chat)>> >>, 1)

\* an error snapshot that leaves the transcript out
ErrorWithoutTranscript(chat) ==
    DictOf(EmptyDict,
           << <<Comp("run_button"), UValueInteractive("Research Client", TRUE)>>,
              <<Comp("stop_button"), UInteractive(FALSE)>>,
              <<Comp("pdf_report"), UVisible(FALSE)>> >>, 1)

\* lines 1006-1011: the snapshot of the except branch
ErrorUpdate(chat) ==
    DictOf(EmptyDict,
           << <<Comp("chatbot"), UValue(chat)>>,
              <<Comp("run_button"), UValueInteractive("Research Client", TRUE)>>,
              <<Comp("stop_button"), UInteractive(FALSE)>>,
              <<Comp("pdf_report"), UVisible(FALSE)>> >>, 1)

\* lines 532-539: the first snapshot of run_vayner_research (None keys dropped)
FirstUpdate(chat) ==
    DictOf(EmptyDict,
           SelectSeq(<< <<Comp("chatbot"), UValue(chat)>>,
                        <<Comp("run_button"), UValueInteractive("Researching...", FALSE)>>,
                        <<Comp("stop_button"), UInteractive(TRUE)>>,
                        <<Comp("pdf_report"), UVisible(FALSE)>> >>,
                     LAMBDA kv : kv[1] # None), 1)

\* lines 1053-1059: an update of run_vayner_research passes through
\* handle_submit, which merges the queued fragments into it and yields it
Yielded(s, update, pc, last_chat_len, terminal) ==
    LET d == DrainAll(update_queue, update, <<>>)
    IN  /\ update_queue' = d.queue
        /\ yielded' = Yield("submit", s, <<d.update>>, d.popped)
        /\ streams' = [streams EXCEPT ![s] =
                          [@ EXCEPT !.pc = pc, !.last_chat_len = last_chat_len,
                                    !.started = TRUE, !.terminal = terminal]]

\* a submission that also starts the transcript afresh
SubmitCallFresh(s, business_name) ==
    /\ streams[s].pc = "idle"
    /\ \A t \in StreamIds : t < s => streams[t].pc # "idle"
    /\ Strip(business_name) # <<>>
    /\ LET report == GenerateLiveReport(Strip(business_name), <<>>, <<>>,
                                        <<>>, <<>>, <<>>, NoneResult)
           update == DictOf(EmptyDict,
                            << <<Comp("pdf_report"),
                                 UValueVisible(report, TRUE)>> >>, 1)
       IN  /\ vayner_current_business' = Strip(business_name)
           /\ vayner_screenshots' = <<>>
           /\ vayner_business_info' = <<>>
           /\ vayner_keyword_data' = <<>>
           /\ vayner_ranking_data' = <<>>
           /\ vayner_keyword_table_rows' = <<>>
           /\ vayner_pdf_report' = report
           /\ vayner_chat_history' = <<>>
           /\ yielded' = Yield("submit", s, <<update>>, <<>>)
           /\ streams' = [streams EXCEPT ![s] =
                             [@ EXCEPT !.pc = "placeholder",
                                       !.name = business_name]]
           /\ UNCHANGED <<registryVars, update_queue, vayner_agent,
                          vayner_current_task, tasks, stopper, clearer, nsteps>>

\* handle_submit, lines 1015-1046: refusal of an empty name, or reset of the
\* per-run collections and the placeholder report as first snapshot
SubmitCall(s, business_name) ==
    /\ streams[s].pc = "idle"
    /\ \A t \in StreamIds : t < s => streams[t].pc # "idle"
    /\ IF Strip(business_name) = <<>>
       THEN /\ streams' = [streams EXCEPT ![s] =
                              [@ EXCEPT !.pc = "ended", !.name = business_name]]
            /\ yielded' = Yield("submit", s, <<EmptyDict>>, <<>>)
            /\ UNCHANGED <<registryVars, sessionVars, tasks, stopper, clearer,
                           nsteps>>
       ELSE LET report == GenerateLiveReport(Strip(business_name), <<>>, <<>>,
                                             <<>>, <<>>, <<>>, NoneResult)
                update == DictOf(EmptyDict,
                                 << <<Comp("pdf_report"),
                                      UValueVisible(report, TRUE)>> >>, 1)
            IN  /\ vayner_current_business' = Strip(business_name)
                /\ vayner_screenshots' = <<>>
                /\ vayner_business_info' = <<>>
                /\ vayner_keyword_data' = <<>>
                /\ vayner_ranking_data' = <<>>
                /\ vayner_keyword_table_rows' = <<>>
                /\ vayner_pdf_report' = report
                /\ yielded' = Yield("submit", s, <<update>>, <<>>)
                /\ streams' = [streams EXCEPT ![s] =
                                  [@ EXCEPT !.pc = "placeholder",
                                            !.name = business_name]]
                /\ UNCHANGED <<registryVars, vayner_chat_history, update_queue,
                               vayner_agent, vayner_current_task, tasks,
                               stopper, clearer, nsteps>>

\* handle_submit line 1049, then run_vayner_research lines 507-539: the queue
\* is emptied, the two run-start messages are appended and the first
\* snapshot disables the start control and enables the cancel control
RunBegin(s) ==
    /\ streams[s].pc = "placeholder"
    /\ LET name == Strip(streams[s].name)
           chat == vayner_chat_history
                     \o << ChatEntry("user", "research", name),
                           ChatEntry("assistant", "starting", name) >>
           d == DrainAll(<<>>, FirstUpdate(chat), <<>>)
       IN  /\ vayner_chat_history' = chat
           /\ update_queue' = d.queue
           /\ yielded' = Yield("submit", s, <<d.update>>, d.popped)
           /\ streams' = [streams EXCEPT ![s] =
                             [@ EXCEPT !.pc = "first", !.started = TRUE]]
    /\ UNCHANGED <<registryVars, vayner_current_business, vayner_pdf_report,
                   factVars, vayner_agent, vayner_current_task, tasks, stopper,
                   clearer, nsteps>>

\* the ways lines 541-954 can end
SetupOutcomes == {"ok", "config_error", "init_error"}

\* a setup that starts a task for the first run of the session only
RunSetupOnce(s, outcome) ==
    /\ streams[s].pc = "first"
    /\ IF vayner_current_task = 0 /\ outcome = "ok"
       THEN /\ vayner_agent' = [vayner_agent EXCEPT !.created = TRUE]
            /\ tasks' = [tasks EXCEPT ![s] =
                            [status |-> "running", cancel_requested |-> FALSE]]
            /\ vayner_current_task' = s
            /\ streams' = [streams EXCEPT ![s] =
                              [@ EXCEPT !.pc = "polling",
                                        !.last_chat_len = Len(vayner_chat_history)]]
       ELSE /\ streams' = [streams EXCEPT ![s] = [@ EXCEPT !.pc = "raised"]]
            /\ UNCHANGED <<vayner_agent, tasks, vayner_current_task>>
    /\ UNCHANGED <<registryVars, vayner_current_business, vayner_chat_history,
                   vayner_pdf_report, factVars, update_queue, yielded,
                   stopper, clearer, nsteps>>

\* a setup that creates the task first and finds the missing credential after
RunSetupLate(s, outcome) ==
    /\ streams[s].pc = "first"
    /\ vayner_agent' = [vayner_agent EXCEPT !.created = TRUE]
    /\ tasks' = [tasks EXCEPT ![s] =
                    [status |-> "running", cancel_requested |-> FALSE]]
    /\ vayner_current_task' = s
    /\ streams' = [streams EXCEPT ![s] =
                      [@ EXCEPT !.pc = IF outcome = "ok" THEN "polling"
                                       ELSE "raised",
                                !.last_chat_len = Len(vayner_chat_history)]]
    /\ UNCHANGED <<registryVars, vayner_current_business, vayner_chat_history,
                   vayner_pdf_report, factVars, update_queue, yielded,
                   stopper, clearer, nsteps>>

\* run_vayner_research lines 541-957:
\*   "config_error"  get_llm_model raises ValueError (llm_provider.py line 58)
\*                   at line 578, outside the try of line 905
\*   "init_error"    the controller, the browser, its context or the agent
\*                   raises inside the try: the except of lines 999-1013
\*   "ok"            the agent exists, create_task has started its run
RunSetup(s, outcome) ==
    /\ streams[s].pc = "first"
    /\ CASE outcome = "config_error" ->
              /\ streams' = [streams EXCEPT ![s] = [@ EXCEPT !.pc = "raised"]]
              /\ UNCHANGED <<sessionVars, tasks, yielded>>
         [] outcome = "init_error" ->
              LET chat == Append(vayner_chat_history,
                                 ChatEntry("assistant", "error", <<>>))
              IN  /\ vayner_chat_history' = chat
                  /\ Yielded(s, ErrorUpdate(chat), "ended",
                             streams[s].last_chat_len, TRUE)
                  /\ UNCHANGED <<vayner_current_business, vayner_pdf_report,
                                 factVars, vayner_agent, vayner_current_task,
                                 tasks>>
         [] OTHER ->
              /\ vayner_agent' = [vayner_agent EXCEPT !.created = TRUE]
              /\ tasks' = [tasks EXCEPT ![s] =
                              [status |-> "running", cancel_requested |-> FALSE]]
              /\ vayner_current_task' = s
              /\ streams' = [streams EXCEPT ![s] =
                                [@ EXCEPT !.pc = "polling",
                                          !.last_chat_len = Len(vayner_chat_history)]]
              /\ UNCHANGED <<vayner_current_business, vayner_chat_history,
                             vayner_pdf_report, factVars, update_queue,
                             yielded>>
    /\ UNCHANGED <<registryVars, stopper, clearer, nsteps>>

\* what take_screenshot does on one tick
ShotOutcomes == {"image", "nothing", "raises"}

\* a loop that a failing take_screenshot() leaves
PollTickAborts(s, shot) ==
    \/ /\ streams[s].pc = "polling"
       /\ tasks[s].status = "running"
       /\ shot = "raises"
       /\ streams' = [streams EXCEPT ![s] = [@ EXCEPT !.pc = "raised"]]
       /\ UNCHANGED <<registryVars, sessionVars, tasks, stopper, clearer,
                      yielded, nsteps>>
    \/ /\ streams[s].pc = "polling"
       /\ tasks[s].status = "running"
       /\ shot # "raises"
       /\ LET grew == Len(vayner_chat_history) > streams[s].last_chat_len
              u1 == DictOf(EmptyDict,
                           << <<Comp("chatbot"), UValue(vayner_chat_history)>> >>, 1)
              u2 == DictOf(EmptyDict,
                           << <<Comp("browser_view"),
                                UValueVisible("live view", TRUE)>> >>, 1)
              d1 == DrainAll(IF grew THEN update_queue ELSE <<>>, u1, <<>>)
              q1 == IF grew THEN d1.queue ELSE update_queue
              d2 == DrainAll(IF shot = "image" THEN q1 ELSE <<>>, u2, <<>>)
          IN  /\ grew \/ shot = "image"
              /\ update_queue' = IF shot = "image" THEN d2.queue ELSE q1
              /\ yielded' = Yield("submit", s,
                                  (IF grew THEN <<d1.update>> ELSE <<>>)
                                    \o (IF shot = "image" THEN <<d2.update>> ELSE <<>>),
                                  d1.popped \o d2.popped)
              /\ streams' = [streams EXCEPT ![s] =
                                [@ EXCEPT !.last_chat_len = Len(vayner_chat_history)]]
       /\ UNCHANGED <<registryVars, vayner_current_business, vayner_chat_history,
                      vayner_pdf_report, factVars, vayner_agent,
                      vayner_current_task, tasks, stopper, clearer, nsteps>>

\* run_vayner_research lines 958-978, one iteration of the polling loop while
\* the task is not done: the transcript is shown if it has grown, the live
\* view is shown if a screenshot was taken; every yielded update passes
\* through the drain of handle_submit
PollTick(s, shot) ==
    /\ streams[s].pc = "polling"
    /\ tasks[s].status = "running"
    /\ LET grew == Len(vayner_chat_history) > streams[s].last_chat_len
           u1 == DictOf(EmptyDict,
                        << <<Comp("chatbot"), UValue(vayner_chat_history)>> >>, 1)
           u2 == DictOf(EmptyDict,
                        << <<Comp("browser_view"),
                             UValueVisible("live view", TRUE)>> >>, 1)
           d1 == DrainAll(IF grew THEN update_queue ELSE <<>>, u1, <<>>)
           q1 == IF grew THEN d1.queue ELSE update_queue
           d2 == DrainAll(IF shot = "image" THEN q1 ELSE <<>>, u2, <<>>)
       IN  /\ grew \/ shot = "image"
           /\ update_queue' = IF shot = "image" THEN d2.queue ELSE q1
           /\ yielded' = Yield("submit", s,
                               (IF grew THEN <<d1.update>> ELSE <<>>)
                                 \o (IF shot = "image" THEN <<d2.update>> ELSE <<>>),
                               d1.popped \o d2.popped)
           /\ streams' = [streams EXCEPT ![s] =
                             [@ EXCEPT !.last_chat_len = Len(vayner_chat_history)]]
    /\ UNCHANGED <<registryVars, vayner_current_business, vayner_chat_history,
                   vayner_pdf_report, factVars, vayner_agent,
                   vayner_current_task, tasks, stopper, clearer, nsteps>>

\* a loop that goes on polling a task that was cancelled
PollExitStays(s) ==
    /\ streams[s].pc = "polling"
    /\ tasks[s].status \in {"done", "failed", "cancelled"}
    /\ CASE tasks[s].status = "done" ->
              /\ Yielded(s, TerminalUpdate(vayner_pdf_report, vayner_chat_history),
                         "ended", streams[s].last_chat_len, TRUE)
              /\ UNCHANGED vayner_chat_history
         [] tasks[s].status = "failed" ->
              LET chat == Append(vayner_chat_history,
                                 ChatEntry("assistant", "error", <<>>))
              IN  /\ vayner_chat_history' = chat
                  /\ Yielded(s, ErrorUpdate(chat), "ended",
                             streams[s].last_chat_len, TRUE)
         [] OTHER ->
              /\ streams' = [streams EXCEPT ![s] =
                                [@ EXCEPT !.last_chat_len = Len(vayner_chat_history)]]
              /\ UNCHANGED <<vayner_chat_history, update_queue, yielded>>
    /\ UNCHANGED <<registryVars, vayner_current_business, vayner_pdf_report,
                   factVars, vayner_agent, vayner_current_task, tasks, stopper,
                   clearer, nsteps>>

\* run_vayner_research lines 958 and 980-1013, the loop has seen the task done:
\*   await agent_task returns         the terminal snapshot of lines 984-997
\*   await agent_task raises          the except branch of lines 999-1013
\*   await agent_task is cancelled    CancelledError is no Exception: it
\*                                    leaves the generator, nothing is yielded
PollExit(s) ==
    /\ streams[s].pc = "polling"
    /\ tasks[s].status \in {"done", "failed", "cancelled"}
    /\ CASE tasks[s].status = "done" ->
              /\ Yielded(s, TerminalUpdate(vayner_pdf_report, vayner_chat_history),
                         "ended", streams[s].last_chat_len, TRUE)
              /\ UNCHANGED vayner_chat_history
         [] tasks[s].status = "failed" ->
              LET chat == Append(vayner_chat_history,
                                 ChatEntry("assistant", "error", <<>>))
              IN  /\ vayner_chat_history' = chat
                  /\ Yielded(s, ErrorUpdate(chat), "ended",
                             streams[s].last_chat_len, TRUE)
         [] OTHER ->
              /\ streams' = [streams EXCEPT ![s] = [@ EXCEPT !.pc = "raised"]]
              /\ UNCHANGED <<vayner_chat_history, update_queue, yielded>>
    /\ UNCHANGED <<registryVars, vayner_current_business, vayner_pdf_report,
                   factVars, vayner_agent, vayner_current_task, tasks, stopper,
                   clearer, nsteps>>


(***************************************************************************)
(* The background task: agent.run(max_steps=50) of BrowserUseAgent, which  *)
(* calls the step callback after each step and the done callback when it   *)
(* ends.  The agent is not part of the sources: its behaviour follows the  *)
(* automation-engine contract of the specification (steps are sequential,  *)
(* the completion callback runs once on success, failure or cancellation); *)
(* the callbacks are those of run_vayner_research.                         *)
(***************************************************************************)
\* a step callback that lets the error of line 695 out: it ends there, with
\* the facts updated and nothing appended to the transcript
StepCallbackRaises(out) ==
    /\ vayner_screenshots' = StepScreenshots(vayner_screenshots, out)
    /\ vayner_business_info' = StepBusinessInfo(vayner_business_info, out)
    /\ vayner_keyword_data' = StepKeywordData(vayner_keyword_data, out)
    /\ vayner_ranking_data' = StepRankingData(vayner_ranking_data, out)
    /\ vayner_keyword_table_rows' = StepRows(vayner_keyword_table_rows, out)
    /\ UNCHANGED <<vayner_pdf_report, update_queue, vayner_chat_history>>

\* a step callback after which the fragments still queued show the report
\* of the facts as the step has left them
StepCallbackRewrites(out) ==
    LET shots == StepScreenshots(vayner_screenshots, out)
        business == StepBusinessInfo(vayner_business_info, out)
        keyword == StepKeywordData(vayner_keyword_data, out)
        ranking == StepRankingData(vayner_ranking_data, out)
        rows == StepRows(vayner_keyword_table_rows, out)
        report == GenerateLiveReport(vayner_current_business, business, keyword,
                                     ranking, shots, rows, NoneResult)
    IN  /\ vayner_screenshots' = shots
        /\ vayner_business_info' = business
        /\ vayner_keyword_data' = keyword
        /\ vayner_ranking_data' = ranking
        /\ vayner_keyword_table_rows' = rows
        /\ IF HistoryIsBound
           THEN /\ vayner_pdf_report' = report
                /\ update_queue' = Push(update_queue, Comp("pdf_report"), report)
           ELSE /\ UNCHANGED vayner_pdf_report
                /\ update_queue' =
                      [i \in 1..Len(update_queue) |->
                          ReportFragment(Comp("pdf_report"), report)]
        /\ vayner_chat_history' =
              Append(vayner_chat_history, ChatEntry("assistant", "step", <<>>))

\* step_callback(state, output, step_num), lines 589-812
StepCallback(out) ==
    LET shots == StepScreenshots(vayner_screenshots, out)
        business == StepBusinessInfo(vayner_business_info, out)
        keyword == StepKeywordData(vayner_keyword_data, out)
        ranking == StepRankingData(vayner_ranking_data, out)
        rows == StepRows(vayner_keyword_table_rows, out)
        report == GenerateLiveReport(vayner_current_business, business, keyword,
                                     ranking, shots, rows, NoneResult)
    IN  /\ vayner_screenshots' = shots
        /\ vayner_business_info' = business
        /\ vayner_keyword_data' = keyword
        /\ vayner_ranking_data' = ranking
        /\ vayner_keyword_table_rows' = rows
        /\ IF HistoryIsBound
           THEN /\ vayner_pdf_report' = report
                /\ update_queue' = Push(update_queue, Comp("pdf_report"), report)
           ELSE UNCHANGED <<vayner_pdf_report, update_queue>>
        /\ vayner_chat_history' =
              Append(vayner_chat_history, ChatEntry("assistant", "step", <<>>))

\* done_callback(history), lines 814-902
DoneCallback(final_result) ==
    LET rows == DoneRows(vayner_keyword_table_rows, final_result)
    IN  /\ vayner_keyword_table_rows' = rows
        /\ vayner_chat_history' =
              Append(vayner_chat_history, ChatEntry("assistant", "summary", <<>>))
        /\ vayner_pdf_report' =
              GenerateLiveReport(vayner_current_business, vayner_business_info,
                                 vayner_keyword_data, vayner_ranking_data,
                                 vayner_screenshots, rows, final_result)
        /\ UNCHANGED <<vayner_screenshots, vayner_business_info,
                       vayner_keyword_data, vayner_ranking_data, update_queue>>

\* one step of the agent, then its step callback
TaskStep(s, out) ==
    /\ tasks[s].status = "running"
    /\ nsteps < MaxSteps
    /\ StepCallback(out)
    /\ nsteps' = nsteps + 1
    /\ UNCHANGED <<registryVars, vayner_current_business, vayner_agent,
                   vayner_current_task, tasks, streams, stopper, clearer,
                   yielded>>

\* the run ends: the done callback, then the task is done with result
\* ("done"), with an exception ("failed") or cancelled ("cancelled", only
\* after task.cancel())
TaskEnd(s, status, final_result) ==
    /\ tasks[s].status = "running"
    /\ status = "cancelled" => tasks[s].cancel_requested
    /\ status # "done" => final_result = NoneResult
    /\ DoneCallback(final_result)
    /\ tasks' = [tasks EXCEPT ![s] = [@ EXCEPT !.status = status]]
    /\ UNCHANGED <<registryVars, vayner_current_business, vayner_agent,
                   vayner_current_task, streams, stopper, clearer, yielded,
                   nsteps>>

(***************************************************************************)
(* handle_stop and handle_clear.  asyncio.wait_for(task, timeout) returns  *)
(* or raises only when the task has ended: on a timeout it cancels the     *)
(* task and waits for the cancellation to complete before it raises        *)
(* TimeoutError.                                                           *)
(***************************************************************************)
\* a wait whose CancelledError and TimeoutError are not caught: the handler
\* does not get past it when the task was cancelled
UncaughtWait(status) ==
    CASE status = "done" -> {"returned"}
      [] status = "failed" -> {"Exception"}
      [] OTHER -> {}

\* what await asyncio.wait_for(task, ...) does for a task that ended so
WaitOutcomes(status) ==
    CASE status = "done" -> {"returned"}
      [] status = "failed" -> {"Exception"}
      [] OTHER -> {"CancelledError", "TimeoutError"}

\* a stop that goes through its stop sequence whether or not a task runs
StopCallAlways(stop_raises) ==
    /\ stopper.pc = "idle"
    /\ vayner_agent' = [vayner_agent EXCEPT
                           !.stopped = IF stop_raises THEN @ ELSE TRUE]
    /\ IF /\ vayner_agent.created
          /\ vayner_current_task # 0
          /\ tasks[vayner_current_task].status = "running"
       THEN /\ tasks' = [tasks EXCEPT ![vayner_current_task] =
                            [@ EXCEPT !.cancel_requested = TRUE]]
            /\ stopper' = [pc |-> "waiting", task |-> vayner_current_task]
            /\ UNCHANGED yielded
       ELSE /\ yielded' = Yield("stop", 0, <<EmptyDict>>, <<>>)
            /\ UNCHANGED <<tasks, stopper>>
    /\ UNCHANGED <<registryVars, vayner_current_business, vayner_chat_history,
                   vayner_pdf_report, factVars, update_queue,
                   vayner_current_task, streams, clearer, nsteps>>

\* handle_stop lines 1061-1082 and 1093-1094: with a running task, the
\* cooperative stop (which may raise, line 1077), task.cancel() and the
\* beginning of the wait; otherwise yield {}
StopCall(stop_raises) ==
    /\ stopper.pc = "idle"
    /\ IF /\ vayner_agent.created
          /\ vayner_current_task # 0
          /\ tasks[vayner_current_task].status = "running"
       THEN /\ vayner_agent' = [vayner_agent EXCEPT
                                   !.stopped = IF stop_raises THEN @ ELSE TRUE]
            /\ tasks' = [tasks EXCEPT ![vayner_current_task] =
                            [@ EXCEPT !.cancel_requested = TRUE]]
            /\ stopper' = [pc |-> "waiting", task |-> vayner_current_task]
            /\ UNCHANGED yielded
       ELSE /\ yielded' = Yield("stop", 0, <<EmptyDict>>, <<>>)
            /\ UNCHANGED <<vayner_agent, tasks, stopper>>
    /\ UNCHANGED <<registryVars, vayner_current_business, vayner_chat_history,
                   vayner_pdf_report, factVars, update_queue,
                   vayner_current_task, streams, clearer, nsteps>>

\* the controls handle_stop yields, lines 1086-1092
StopUpdate ==
    DictOf(EmptyDict,
           << <<Comp("run_button"), UValueInteractive("Research Client", TRUE)>>,
              <<Comp("stop_button"), UInteractive(FALSE)>> >>, 1)

\* handle_stop lines 1082-1092: the wait has ended, whatever it raised is
\* swallowed, the controls are yielded
StopReturn(outcome) ==
    /\ stopper.pc = "waiting"
    /\ tasks[stopper.task].status # "running"
    /\ outcome \in WaitOutcomes(tasks[stopper.task].status)
    /\ yielded' = Yield("stop", 0, <<StopUpdate>>, <<>>)
    /\ stopper' = [pc |-> "idle", task |-> 0]
    /\ UNCHANGED <<registryVars, sessionVars, tasks, streams, clearer, nsteps>>

\* a reset that leaves the transcript as it is
ResetKeepsTranscript ==
    LET report == GenerateLiveReport(BusinessName, <<>>, <<>>, <<>>, <<>>, <<>>,
                                     NoneResult)
    IN  /\ vayner_pdf_report' = report
        /\ vayner_screenshots' = <<>>
        /\ vayner_business_info' = <<>>
        /\ vayner_keyword_data' = <<>>
        /\ vayner_ranking_data' = <<>>
        /\ vayner_keyword_table_rows' = <<>>
        /\ vayner_current_business' = BusinessName
        /\ update_queue' = <<>>
        /\ yielded' = Yield("clear", 0,
              <<DictOf(EmptyDict,
                << <<Comp("chatbot"), UValue(<<>>)>>,
                   <<Comp("run_button"), UValueInteractive("Research Client", TRUE)>>,
                   <<Comp("stop_button"), UInteractive(FALSE)>>,
                   <<Comp("browser_view"), UValue("Browser View")>>,
                   <<Comp("business_name"), UValue(<<>>)>>,
                   <<Comp("pdf_report"), UValueVisible(report, TRUE)>> >>, 1)>>,
              <<>>)
        /\ UNCHANGED vayner_chat_history

\* handle_clear lines 1121-1152: the reset and the yielded update
ClearReset ==
    LET report == GenerateLiveReport(BusinessName, <<>>, <<>>, <<>>, <<>>, <<>>,
                                     NoneResult)
    IN  /\ vayner_chat_history' = <<>>
        /\ vayner_pdf_report' = report
        /\ vayner_screenshots' = <<>>
        /\ vayner_business_info' = <<>>
        /\ vayner_keyword_data' = <<>>
        /\ vayner_ranking_data' = <<>>
        /\ vayner_keyword_table_rows' = <<>>
        /\ vayner_current_business' = BusinessName
        /\ update_queue' = <<>>
        /\ yielded' = Yield("clear", 0,
              <<DictOf(EmptyDict,
                << <<Comp("chatbot"), UValue(<<>>)>>,
                   <<Comp("run_button"), UValueInteractive("Research Client", TRUE)>>,
                   <<Comp("stop_button"), UInteractive(FALSE)>>,
                   <<Comp("browser_view"), UValue("Browser View")>>,
                   <<Comp("business_name"), UValue(<<>>)>>,
                   <<Comp("pdf_report"), UValueVisible(report, TRUE)>> >>, 1)>>,
              <<>>)

\* handle_clear lines 1096-1119: with a running task, the cooperative stop
\* and, unless it raised (the except of line 1118), task.cancel() and the
\* beginning of the wait; without one, or when the stop raised, the reset
ClearCall(stop_raises) ==
    /\ clearer.pc = "idle"
    /\ IF /\ vayner_current_task # 0
          /\ tasks[vayner_current_task].status = "running"
          /\ ~stop_raises
       THEN /\ vayner_agent' = [vayner_agent EXCEPT !.stopped = TRUE]
            /\ tasks' = [tasks EXCEPT ![vayner_current_task] =
                            [@ EXCEPT !.cancel_requested = TRUE]]
            /\ clearer' = [pc |-> "waiting", task |-> vayner_current_task]
            /\ UNCHANGED <<vayner_current_business, vayner_chat_history,
                           vayner_pdf_report, factVars, update_queue,
                           yielded>>
       ELSE /\ ClearReset
            /\ UNCHANGED <<vayner_agent, tasks, clearer>>
    /\ UNCHANGED <<registryVars, vayner_current_task, streams, stopper, nsteps>>

\* handle_clear lines 1114-1152: the wait has ended, the reset follows
ClearReturn ==
    /\ clearer.pc = "waiting"
    /\ tasks[clearer.task].status # "running"
    /\ ClearReset
    /\ clearer' = [pc |-> "idle", task |-> 0]
    /\ UNCHANGED <<registryVars, vayner_agent, vayner_current_task, tasks,
                   streams, stopper, nsteps>>

(***************************************************************************)
(* The session: the handlers of the tab and the background tasks.  The     *)
(* steps and results of the session are the ones with a screenshot and     *)
(* with a keyword table or no result; the aggregation and the rendering of *)
(* all of StepOutputs and FinalResults are explored on their own below.    *)
(* Spec is one submission with handle_stop and handle_clear arriving at    *)
(* any moment; ConcurrentSpec is the submissions of both listeners of      *)
(* submit_wrapper (run_button.click and business_name.submit) overlapping. *)
(***************************************************************************)
SessionStepOutputs == {out \in StepOutputs : out.screenshot # NoShot}

SessionFinalResults == {NoneResult, StrResult(FinalTable)}

Next ==
    \/ \E name \in Identities : SubmitCall(1, name)
    \/ \E s \in StreamIds : RunBegin(s)
    \/ \E s \in StreamIds, outcome \in SetupOutcomes : RunSetup(s, outcome)
    \/ \E s \in StreamIds, shot \in ShotOutcomes : PollTick(s, shot)
    \/ \E s \in StreamIds : PollExit(s)
    \/ \E s \in StreamIds, out \in SessionStepOutputs : TaskStep(s, out)
    \/ \E s \in StreamIds, status \in {"done", "failed", "cancelled"},
          final_result \in SessionFinalResults : TaskEnd(s, status, final_result)
    \/ \E stop_raises \in BOOLEAN : StopCall(stop_raises)
    \/ \E outcome \in {"returned", "Exception", "CancelledError", "TimeoutError"} :
          StopReturn(outcome)
    \/ \E stop_raises \in BOOLEAN : ClearCall(stop_raises)
    \/ ClearReturn

Spec == Init /\ [][Next]_vars

ConcurrentNext ==
    \/ \E s \in StreamIds, name \in Identities : SubmitCall(s, name)
    \/ \E s \in StreamIds : RunBegin(s)
    \/ \E s \in StreamIds, outcome \in SetupOutcomes : RunSetup(s, outcome)
    \/ \E s \in StreamIds, shot \in ShotOutcomes : PollTick(s, shot)
    \/ \E s \in StreamIds : PollExit(s)
    \/ \E s \in StreamIds, status \in {"done", "failed"},
          final_result \in SessionFinalResults : TaskEnd(s, status, final_result)

ConcurrentSpec == Init /\ [][ConcurrentNext]_vars


(***************************************************************************)
(* The same session under the scheduling of asyncio and of the agent: the  *)
(* event loop runs what is ready.  As long as a generator can resume, a    *)
(* wait that has ended can return or a run can end (agent.run is bounded   *)
(* by max_steps, and a cancelled task is thrown CancelledError at its next *)
(* suspension point), one of them does; which one is left open.            *)
(***************************************************************************)
Progress ==
    \/ \E s \in StreamIds : RunBegin(s)
    \/ \E s \in StreamIds, outcome \in SetupOutcomes : RunSetup(s, outcome)
    \/ \E s \in StreamIds : PollExit(s)
    \/ \E s \in StreamIds, status \in {"done", "failed", "cancelled"},
          final_result \in SessionFinalResults : TaskEnd(s, status, final_result)
    \/ \E outcome \in {"returned", "Exception", "CancelledError", "TimeoutError"} :
          StopReturn(outcome)
    \/ ClearReturn

FairSpec == Spec /\ WF_vars(Progress)

(***************************************************************************)
(* The registry on its own: from the empty maps of WebuiManager.__init__,  *)
(* any sequence of add_components, get_component_by_id and                 *)
(* get_id_by_component calls.                                              *)
(***************************************************************************)
RegInit ==
    /\ id_to_component = EmptyDict
    /\ component_to_id = EmptyDict
    /\ lookup = NoLookup
    /\ SessionInit

RegNext ==
    \/ \E tab_name \in RegTabs, items \in RegDicts : AddComponents(tab_name, items)
    \/ \E comp_id \in RegIds : ResolveCall(comp_id)
    \/ \E comp \in RegHandles : ReverseCall(comp)

RegSpec == RegInit /\ [][RegNext]_vars

(***************************************************************************)
(* The update queue on its own: one run whose callbacks push report        *)
(* fragments (lines 698-706, taken by themselves) while the polling loop   *)
(* yields updates through the drain of handle_submit (lines 1053-1059).    *)
(***************************************************************************)
\* the reports of the fragments pushed
ChannelReports ==
    {GenerateLiveReport(name, <<>>, <<>>, <<>>, <<>>, <<>>, NoneResult) :
        name \in {PlainName, BusinessName}}

\* lines 698-706: the append of one fragment by a callback of the running task
ChannelPush(s, report) ==
    /\ tasks[s].status = "running"
    /\ Len(update_queue) < MaxQueue
    /\ update_queue' = Push(update_queue, Comp("pdf_report"), report)
    /\ UNCHANGED <<registryVars, vayner_current_business, vayner_chat_history,
                   vayner_pdf_report, factVars, vayner_agent,
                   vayner_current_task, processVars>>

ChannelNext ==
    \/ SubmitCall(1, PlainName)
    \/ RunBegin(1)
    \/ RunSetup(1, "ok")
    \/ \E report \in ChannelReports : ChannelPush(1, report)
    \/ \E shot \in ShotOutcomes : PollTick(1, shot)
    \/ \E out \in {o \in StepOutputs : o.screenshot = NoShot} : TaskStep(1, out)

ChannelSpec == Init /\ [][ChannelNext]_vars

(***************************************************************************)
(* The update queue of a run whose callbacks push the report of the facts  *)
(* as they are at the push (lines 688-706, taken by themselves), while the *)
(* steps of the run go on adding facts and rows.                           *)
(***************************************************************************)
SnapshotNext ==
    \/ SubmitCall(1, PlainName)
    \/ RunBegin(1)
    \/ RunSetup(1, "ok")
    \/ ChannelPush(1, GenerateLiveReport(vayner_current_business,
                                         vayner_business_info,
                                         vayner_keyword_data,
                                         vayner_ranking_data,
                                         vayner_screenshots,
                                         vayner_keyword_table_rows, NoneResult))
    \/ \E shot \in ShotOutcomes : PollTick(1, shot)
    \/ \E out \in StepOutputs : TaskStep(1, out)

SnapshotSpec == Init /\ [][SnapshotNext]_vars


(***************************************************************************)
(* Submissions one after the other: a submit arrives when the stream of    *)
(* the submit before it has ended, in whatever way: by a refusal, by an    *)
(* error, by the completion or failure of its task or by handle_stop.      *)
(***************************************************************************)
RerunNext ==
    \/ \E s \in StreamIds, name \in Identities :
          /\ \A t \in StreamIds : t < s => streams[t].pc \in {"ended", "raised"}
          /\ SubmitCall(s, name)
    \/ \E s \in StreamIds : RunBegin(s)
    \/ \E s \in StreamIds, outcome \in SetupOutcomes : RunSetup(s, outcome)
    \/ \E s \in StreamIds, shot \in ShotOutcomes : PollTick(s, shot)
    \/ \E s \in StreamIds : PollExit(s)
    \/ \E s \in StreamIds, status \in {"done", "failed", "cancelled"},
          final_result \in SessionFinalResults : TaskEnd(s, status, final_result)
    \/ StopCall(FALSE)
    \/ \E outcome \in {"returned", "Exception", "CancelledError", "TimeoutError"} :
          StopReturn(outcome)

RerunSpec == Init /\ [][RerunNext]_vars

(***************************************************************************)
(* Submissions one after the other where the runs gather facts: the agent  *)
(* reports steps, the run ends, and the next submission finds the lists,   *)
(* the transcript and the agent of the run before.                         *)
(***************************************************************************)
ResetNext ==
    \/ \E s \in StreamIds, name \in Identities :
          /\ \A t \in StreamIds : t < s => streams[t].pc \in {"ended", "raised"}
          /\ SubmitCall(s, name)
    \/ \E s \in StreamIds : RunBegin(s)
    \/ \E s \in StreamIds : RunSetup(s, "ok")
    \/ \E s \in StreamIds, out \in StepOutputs : TaskStep(s, out)
    \/ \E s \in StreamIds : TaskEnd(s, "done", NoneResult)
    \/ \E s \in StreamIds : PollExit(s)

ResetSpec == Init /\ [][ResetNext]_vars

(***************************************************************************)
(* The update queue over a whole run: the pushes of ChannelSpec, with the  *)
(* run ending by completion, by failure or by cancellation, and with       *)
(* handle_stop and handle_clear arriving at any moment.                    *)
(***************************************************************************)
DeliveryNext ==
    \/ SubmitCall(1, PlainName)
    \/ RunBegin(1)
    \/ RunSetup(1, "ok")
    \/ \E report \in ChannelReports : ChannelPush(1, report)
    \/ \E shot \in ShotOutcomes : PollTick(1, shot)
    \/ \E status \in {"done", "failed", "cancelled"} :
          TaskEnd(1, status, NoneResult)
    \/ PollExit(1)
    \/ StopCall(FALSE)
    \/ \E outcome \in {"returned", "Exception", "CancelledError", "TimeoutError"} :
          StopReturn(outcome)
    \/ ClearCall(FALSE)
    \/ ClearReturn

DeliverySpec == Init /\ [][DeliveryNext]_vars

(***************************************************************************)
(* One run with handle_stop and handle_clear, whose stop request does not  *)
(* raise, under the scheduling of FairSpec.                                *)
(***************************************************************************)
CancelNext ==
    \/ SubmitCall(1, PlainName)
    \/ RunBegin(1)
    \/ RunSetup(1, "ok")
    \/ \E shot \in ShotOutcomes : PollTick(1, shot)
    \/ \E out \in SessionStepOutputs : TaskStep(1, out)
    \/ \E status \in {"done", "failed", "cancelled"} :
          TaskEnd(1, status, NoneResult)
    \/ PollExit(1)
    \/ StopCall(FALSE)
    \/ \E outcome \in {"returned", "Exception", "CancelledError", "TimeoutError"} :
          StopReturn(outcome)
    \/ ClearCall(FALSE)
    \/ ClearReturn

CancelSpec == Init /\ [][CancelNext]_vars /\ WF_vars(Progress)

(***************************************************************************)
(* The update queue with two submissions: handle_submit starts a run       *)
(* whether or not the run before is over, the queue is one attribute of    *)
(* webui_manager, and the callbacks of the first run push their fragments  *)
(* (lines 698-706, taken by themselves) as long as its task runs.  The     *)
(* second run pushes nothing here, so that whatever fragment a snapshot    *)
(* carries was pushed by the first run.                                    *)
(***************************************************************************)
LeakNext ==
    \/ \E s \in StreamIds : SubmitCall(s, PlainName)
    \/ \E s \in StreamIds : RunBegin(s)
    \/ \E s \in StreamIds : RunSetup(s, "ok")
    \/ \E report \in ChannelReports : ChannelPush(1, report)
    \/ \E s \in StreamIds, shot \in ShotOutcomes : PollTick(s, shot)
    \/ \E s \in StreamIds : TaskEnd(s, "done", NoneResult)
    \/ \E s \in StreamIds : PollExit(s)

LeakSpec == Init /\ [][LeakNext]_vars

(***************************************************************************)
(* The aggregation on its own: one run from submit to its end, over all of *)
(* StepOutputs and FinalResults.                                           *)
(***************************************************************************)
FactNext ==
    \/ SubmitCall(1, PaddedName)
    \/ RunBegin(1)
    \/ RunSetup(1, "ok")
    \/ \E out \in StepOutputs : TaskStep(1, out)
    \/ \E status \in {"done", "failed"}, final_result \in FinalResults :
          TaskEnd(1, status, final_result)
    \/ \E shot \in ShotOutcomes : PollTick(1, shot)
    \/ PollExit(1)

FactSpec == Init /\ [][FactNext]_vars

\* the same run under the scheduling of FairSpec: the loop and the agent go on
FairFactSpec == FactSpec /\ WF_vars(Progress)

(***************************************************************************)
(* The properties.                                                         *)
(***************************************************************************)
\* the component named is in the update, with the field given
Sets(update, name, field) ==
    /\ Comp(name) \in DOMAIN update
    /\ field \in update[Comp(name)].has

\* the update enables the start control and disables the cancel control
ControlsReady(update) ==
    /\ Sets(update, "run_button", "interactive")
    /\ update[Comp("run_button")].interactive
    /\ Sets(update, "stop_button", "interactive")
    /\ ~update[Comp("stop_button")].interactive

IsPrefix(a, b) == Len(a) <= Len(b) /\ \A i \in 1..Len(a) : a[i] = b[i]

\* C1: at most one background task is live: a submit while a task started
\* by an earlier submit is running starts no second task.
C1_SingleLiveTask ==
    Cardinality({s \in StreamIds : tasks[s].status = "running"}) <= 1

\* C2: handle_stop called while a task is running always returns: whatever
\* the wait ends with (the task's return, its exception, CancelledError,
\* TimeoutError), nothing is raised to the caller and the update the handler
\* yields enables the start control and disables the cancel control.
C2_CancelCompletes ==
    /\ [][\A outcome \in {"returned", "Exception", "CancelledError",
                          "TimeoutError"} :
             StopReturn(outcome) =>
                /\ stopper'.pc = "idle"
                /\ yielded'.by = "stop"
                /\ Len(yielded'.updates) = 1
                /\ ControlsReady(yielded'.updates[1])]_vars
    /\ (stopper.pc = "waiting") ~> (stopper.pc = "idle")

\* handle_stop has cancelled a running task, its wait has ended with the
\* task cancelled and the handler has yielded the controls
C2_Stopped ==
    /\ stopper.pc = "idle"
    /\ yielded.by = "stop"
    /\ yielded.updates = <<StopUpdate>>
    /\ tasks[1].status = "cancelled"
    /\ tasks[1].cancel_requested

\* C3: a drain delivers every queued fragment in push order and leaves the
\* queue empty, so that a drain right after it delivers nothing.
C3_ChannelFifo ==
    [][\A s \in StreamIds, shot \in ShotOutcomes :
          PollTick(s, shot) =>
             /\ yielded'.popped = update_queue
             /\ update_queue' = <<>>
             /\ (update_queue = <<>> => yielded'.popped = <<>>)]_vars

\* one tick has yielded twice: the first drain has delivered two different
\* fragments in the order pushed, the second has found the queue empty
C3_Drained ==
    /\ Len(yielded.updates) = 2
    /\ Len(yielded.popped) = 2
    /\ yielded.popped[1] # yielded.popped[2]
    /\ yielded.popped[1][Comp("pdf_report")].value.cover = PlainName
    /\ update_queue = <<>>

UniqueKeywords(rows) ==
    \A i, j \in 1..Len(rows) :
        i # j => Lower(rows[i].keyword) # Lower(rows[j].keyword)

\* C4: no two rows of the keyword table have keywords equal ignoring case,
\* and a step callback or done callback keeps every row already stored, as
\* it is and where it is: the first row inserted for a keyword is the one kept.
C4_KeywordRowsUnique ==
    /\ []UniqueKeywords(vayner_keyword_table_rows)
    /\ [][(\E s \in StreamIds :
             \/ \E out \in StepOutputs : TaskStep(s, out)
             \/ \E status \in {"done", "failed", "cancelled"},
                   final_result \in FinalResults :
                   TaskEnd(s, status, final_result))
          => IsPrefix(vayner_keyword_table_rows, vayner_keyword_table_rows')]_vars

\* the step that reports "Ab" has run before the step that reports "ab" with
\* other figures, then the done callback has read the table with "AB" and
\* "Ef": the row of "Ab" is the first one's, "Ef" is added
C4_DuplicatesDropped ==
    /\ nsteps = 2
    /\ Len(vayner_screenshots) = 1
    /\ Len(vayner_keyword_table_rows) = 2
    /\ vayner_keyword_table_rows[1] =
          [keyword |-> <<"A", "b">>, performance |-> <<"1", "2">>,
           sov |-> <<"3">>]
    /\ vayner_keyword_table_rows[2].keyword = <<"E", "f">>

\* C5: the id-to-handle map and the handle-to-id map are mutual inverses
\* after any sequence of add_components calls.
C5_RegistryInverse ==
    /\ \A comp_id \in DOMAIN id_to_component :
          /\ id_to_component[comp_id] \in DOMAIN component_to_id
          /\ component_to_id[id_to_component[comp_id]] = comp_id
    /\ \A comp \in DOMAIN component_to_id :
          /\ component_to_id[comp] \in DOMAIN id_to_component
          /\ id_to_component[component_to_id[comp]] = comp

\* C6: add_components fails when a composed id is already registered, and
\* the binding the id has is not replaced.
C6_DuplicateRefused ==
    [][\A tab_name \in RegTabs, items \in RegDicts :
          AddComponents(tab_name, items) =>
             /\ \A comp_id \in DOMAIN id_to_component :
                   id_to_component'[comp_id] = id_to_component[comp_id]
             /\ (\E i \in 1..Len(items) :
                    CompId(tab_name, items[i][1]) \in DOMAIN id_to_component)
                  => lookup'.raised]_vars

\* C7: get_component_by_id raises nothing and returns None for an id that is
\* not registered, get_id_by_component raises for a handle that is not
\* registered, and neither changes the registry.
C7_UnknownLookups ==
    [][/\ \A comp_id \in RegIds :
             ResolveCall(comp_id) =>
                /\ ~lookup'.raised
                /\ comp_id \notin DOMAIN id_to_component => lookup'.comp = None
                /\ comp_id \in DOMAIN id_to_component
                     => lookup'.comp = id_to_component[comp_id]
                /\ UNCHANGED <<id_to_component, component_to_id>>
       /\ \A comp \in RegHandles :
             ReverseCall(comp) =>
                /\ comp \notin DOMAIN component_to_id => lookup'.raised
                /\ comp \in DOMAIN component_to_id
                     => ~lookup'.raised /\ lookup'.id = component_to_id[comp]
                /\ UNCHANGED <<id_to_component, component_to_id>>]_vars

\* get_id_by_component has raised for a handle that no add_components call
\* of a registry that holds others has registered
C7_UnknownHandle ==
    /\ lookup.op = "get_id_by_component"
    /\ lookup.raised
    /\ lookup.comp \notin DOMAIN component_to_id
    /\ component_to_id # EmptyDict

\* C8: a submit stream whose first snapshot has disabled the start control
\* does not end without a terminal snapshot that enables it again.
C8_TerminalSnapshot ==
    \A s \in StreamIds :
        streams[s].started /\ streams[s].pc \in {"ended", "raised"}
            => streams[s].terminal

C10_BlankRefused ==
    [][\A s \in StreamIds, name \in Identities :
          (SubmitCall(s, name) /\ \A i \in 1..Len(name) : name[i] \in SpaceChars)
          => /\ UNCHANGED <<sessionVars, tasks>>
             /\ streams'[s].pc = "ended"
             /\ ~streams'[s].started
             /\ yielded'.updates = <<EmptyDict>>]_vars

\* the submit of "  " has been refused with nothing of the session touched
C10_Refused ==
    /\ streams[1].pc = "ended"
    /\ streams[1].name = BlankName
    /\ ~streams[1].started
    /\ yielded.by = "submit"
    /\ yielded.updates = <<EmptyDict>>
    /\ vayner_current_business = UnknownBusiness
    /\ vayner_pdf_report = NoReport
    /\ tasks[1].status = "none"

\* the session holds nothing of a run: empty transcript, note buckets, keyword
\* rows, screenshots and update queue, and the placeholder report
SessionCleared ==
    /\ vayner_chat_history = <<>>
    /\ vayner_business_info = <<>>
    /\ vayner_keyword_data = <<>>
    /\ vayner_ranking_data = <<>>
    /\ vayner_keyword_table_rows = <<>>
    /\ vayner_screenshots = <<>>
    /\ update_queue = <<>>
    /\ vayner_pdf_report.result.kind = "placeholder"
    /\ vayner_pdf_report.keyword_table = <<>>

\* C11: handle_clear ends with the session state reset, whether no task was
\* running, the cooperative stop raised, or the wait for the cancelled task
\* ended with its return, its exception, CancelledError or TimeoutError; and
\* the update it yields shows the empty transcript and the placeholder report.
C11_ClearResets ==
    [][(\/ ClearReturn
        \/ \E stop_raises \in BOOLEAN :
              ClearCall(stop_raises) /\ clearer'.pc = "idle")
       => /\ SessionCleared'
          /\ clearer'.pc = "idle"
          /\ yielded'.by = "clear"
          /\ Len(yielded'.updates) = 1
          /\ Sets(yielded'.updates[1], "chatbot", "value")
          /\ yielded'.updates[1][Comp("chatbot")].value = <<>>
          /\ yielded'.updates[1][Comp("pdf_report")].value = vayner_pdf_report'
          /\ ControlsReady(yielded'.updates[1])]_vars

\* handle_clear has cancelled a task that had run a step, has waited for the
\* cancellation and has reset the session
C11_ClearedAfterCancel ==
    /\ clearer.pc = "idle"
    /\ yielded.by = "clear"
    /\ tasks[1].status = "cancelled"
    /\ nsteps >= 1
    /\ SessionCleared

\* C12: a callback of a background task that is no longer the session's
\* active task does not touch the session state: the done callback of the
\* task of stream s, run when a later submit has reset the state and made
\* its own task the current one, leaves the transcript, the facts, the rows,
\* the queue and the report as they are.
C12_NoStaleMutation ==
    [][\A s \in StreamIds, status \in {"done", "failed", "cancelled"},
          final_result \in SessionFinalResults :
          (TaskEnd(s, status, final_result) /\ vayner_current_task # s)
          => UNCHANGED <<vayner_chat_history, vayner_pdf_report, factVars,
                         update_queue>>]_vars

\* C13: every step callback regenerates the report from the facts it has
\* just updated and pushes one fragment for the report slot onto the update
\* queue, so that the fragment the next drain delivers holds a report whose
\* keyword table has the rows extracted up to this step.
C13_LiveReportPerStep ==
    [][\A s \in StreamIds, out \in StepOutputs :
          TaskStep(s, out) =>
             /\ Len(update_queue') = Len(update_queue) + 1
             /\ Comp("pdf_report") \in DOMAIN update_queue'[Len(update_queue')]
             /\ update_queue'[Len(update_queue')][Comp("pdf_report")].value
                   = vayner_pdf_report'
             /\ vayner_pdf_report'.keyword_table = vayner_keyword_table_rows'
             /\ vayner_pdf_report'.cover = vayner_current_business]_vars

\* C14: when the task has completed, the terminal snapshot sets the report
\* slot to the report the done callback has generated: the report rendered
\* from the final result and from the rows as the done callback left them,
\* those extracted from the final result included.
C14_TerminalCarriesReport ==
    /\ [][\A s \in StreamIds, final_result \in FinalResults :
             TaskEnd(s, "done", final_result) =>
                /\ vayner_keyword_table_rows'
                      = DoneRows(vayner_keyword_table_rows, final_result)
                /\ vayner_pdf_report'.keyword_table = vayner_keyword_table_rows'
                /\ vayner_pdf_report'.result = ResultSection(final_result)]_vars
    /\ [][\A s \in StreamIds :
             (PollExit(s) /\ tasks[s].status = "done") =>
                /\ streams'[s].terminal
                /\ Len(yielded'.updates) = 1
                /\ Sets(yielded'.updates[1], "pdf_report", "value")
                /\ yielded'.updates[1][Comp("pdf_report")].value
                      = vayner_pdf_report
                /\ yielded'.updates[1][Comp("pdf_report")].value.keyword_table
                      = vayner_keyword_table_rows]_vars
    /\ [](\A s \in StreamIds :
             tasks[s].status = "done" =>
                /\ vayner_pdf_report.keyword_table = vayner_keyword_table_rows
                /\ \E final_result \in FinalResults :
                      vayner_pdf_report.result = ResultSection(final_result))

\* a run with one step has completed with the keyword table as its final
\* result: the terminal snapshot shows the table and, after the row of the
\* step, the rows the done callback has taken from it
C14_FinalReportShown ==
    /\ streams[1].pc = "ended"
    /\ streams[1].terminal
    /\ tasks[1].status = "done"
    /\ nsteps = 1
    /\ Sets(yielded.updates[1], "pdf_report", "value")
    /\ yielded.updates[1][Comp("pdf_report")].value.result.kind = "table"
    /\ Len(yielded.updates[1][Comp("pdf_report")].value.keyword_table) = 2
    /\ yielded.updates[1][Comp("pdf_report")].value.keyword_table[2].keyword
          = <<"E", "f">>

\* C15: when the background task has raised an exception, the submit stream
\* catches it: it appends one error entry to the transcript, yields a
\* terminal snapshot that shows this transcript and re-enables the controls,
\* and ends without raising; the transcript never holds two error entries.
C15_FailureAbsorbed ==
    /\ [][\A s \in StreamIds :
             (PollExit(s) /\ tasks[s].status = "failed") =>
                /\ vayner_chat_history'
                      = Append(vayner_chat_history,
                               ChatEntry("assistant", "error", <<>>))
                /\ streams'[s].pc = "ended"
                /\ streams'[s].terminal
                /\ yielded'.by = "submit"
                /\ Len(yielded'.updates) = 1
                /\ Sets(yielded'.updates[1], "chatbot", "value")
                /\ yielded'.updates[1][Comp("chatbot")].value
                      = vayner_chat_history'
                /\ ControlsReady(yielded'.updates[1])]_vars
    /\ [](Cardinality({i \in 1..Len(vayner_chat_history) :
                          vayner_chat_history[i].kind = "error"}) <= 1)

\* the task has failed after a step and the stream has ended with the error
\* entry as the last entry of the transcript it has shown
C15_FailureShown ==
    /\ streams[1].pc = "ended"
    /\ streams[1].terminal
    /\ tasks[1].status = "failed"
    /\ nsteps >= 1
    /\ yielded.by = "submit"
    /\ Sets(yielded.updates[1], "chatbot", "value")
    /\ yielded.updates[1][Comp("chatbot")].value = vayner_chat_history
    /\ vayner_chat_history[Len(vayner_chat_history)].kind = "error"
    /\ Len(vayner_chat_history) >= 5

\* C16: a missing credential makes the submit fail before a background task
\* exists: the stream ends by the exception with no task created, no task
\* handle stored and no agent built, and no callback of it can run then or
\* later; and whatever way a stream has ended (refusal, configuration error,
\* setup error, failed or completed task), the next submit is accepted and
\* its run can be set up.
C16_ConfigFailsFast ==
    /\ [][\A s \in StreamIds :
             RunSetup(s, "config_error") =>
                /\ streams'[s].pc = "raised"
                /\ tasks[s].status = "none"
                /\ UNCHANGED <<tasks, vayner_current_task, vayner_agent,
                               factVars, vayner_pdf_report, update_queue>>]_vars
    /\ [][\A s \in StreamIds :
             (streams[s].pc = "raised" /\ tasks[s].status = "none")
                => tasks'[s].status = "none"]_vars
    /\ [](\A s \in StreamIds :
             tasks[s].status = "none" =>
                /\ ~ENABLED (\E out \in StepOutputs : TaskStep(s, out))
                /\ ~ENABLED (\E status \in {"done", "failed", "cancelled"},
                                final_result \in FinalResults :
                                TaskEnd(s, status, final_result)))
    /\ [](\A s \in StreamIds :
             (/\ s > 1
              /\ streams[s - 1].pc \in {"ended", "raised"}
              /\ streams[s].pc = "idle")
                => ENABLED SubmitCall(s, PlainName))
    /\ [](\A s \in StreamIds :
             streams[s].pc = "first" => ENABLED RunSetup(s, "ok"))

\* the first submit has failed by the configuration error, with no task and
\* no task handle, and the second submit has started a run
C16_FailedFast ==
    /\ streams[1].pc = "raised"
    /\ streams[1].started
    /\ tasks[1].status = "none"
    /\ streams[2].pc = "polling"
    /\ tasks[2].status = "running"
    /\ vayner_current_task = 2

\* C17: an error raised inside the step callback stays inside it.  The
\* regeneration of the report raises at every step (HistoryIsBound): the
\* callback keeps the facts it has extracted, leaves the report and the
\* queue as they were, appends exactly one entry to the transcript and
\* returns to the run, which is still running: it can go on with another
\* step and with the done callback, and every step run has its entry.
C17_StepErrorsContained ==
    /\ [][\A s \in StreamIds, out \in StepOutputs :
             TaskStep(s, out) =>
                /\ vayner_chat_history'
                      = Append(vayner_chat_history,
                               ChatEntry("assistant", "step", <<>>))
                /\ vayner_keyword_table_rows'
                      = StepRows(vayner_keyword_table_rows, out)
                /\ ~HistoryIsBound
                      => UNCHANGED <<vayner_pdf_report, update_queue>>
                /\ tasks'[s].status = "running"]_vars
    /\ [](\A s \in StreamIds :
             nsteps >= 1 /\ tasks[s].status # "none" =>
                /\ Len(vayner_chat_history) >= 2 + nsteps
                /\ \A i \in 3..(2 + nsteps) :
                      vayner_chat_history[i].kind = "step")

\* two steps have run, each with its entry in the transcript, and the done
\* callback has run after them and has added its summary
C17_RunWentOn ==
    /\ nsteps = 2
    /\ tasks[1].status = "done"
    /\ Len(vayner_chat_history) = 5
    /\ vayner_chat_history[3].kind = "step"
    /\ vayner_chat_history[4].kind = "step"
    /\ vayner_chat_history[5].kind = "summary"
    /\ Len(vayner_keyword_table_rows) >= 1

\* the text is a number (the figures of the model are unsigned integers)
IsNumber(text) == text # <<>> /\ \A i \in 1..Len(text) : text[i] \in Digits

DigitValue(c) ==
    CASE c = "0" -> 0 [] c = "1" -> 1 [] c = "2" -> 2 [] c = "3" -> 3
      [] c = "4" -> 4 [] c = "5" -> 5 [] c = "6" -> 6 [] c = "7" -> 7
      [] c = "8" -> 8 [] OTHER -> 9

RECURSIVE NumberOf(_)
NumberOf(text) ==
    IF text = <<>> THEN 0
    ELSE 10 * NumberOf(SubSeq(text, 1, Len(text) - 1))
           + DigitValue(text[Len(text)])

RECURSIVE SumOf(_)
SumOf(texts) ==
    IF texts = <<>> THEN 0 ELSE NumberOf(Head(texts)) + SumOf(Tail(texts))

\* shown is the mean of the values of the column that are numbers
IsMeanOf(shown, values) ==
    LET numbers == SelectSeq(values, IsNumber)
    IN  numbers # <<>> =>
           /\ IsNumber(shown)
           /\ NumberOf(shown) * Len(numbers) = SumOf(numbers)

\* C18: the keyword table of a report rendered from keyword rows ends with a
\* row labelled "Average" that follows the rows themselves and holds, for
\* the performance and the share-of-voice column, the mean of the values
\* that are numbers.
C18_AverageRow ==
    vayner_keyword_table_rows # <<>>
    /\ vayner_pdf_report.keyword_table # <<>>
    => LET table == vayner_pdf_report.keyword_table
           rows == SubSeq(table, 1, Len(table) - 1)
           average == table[Len(table)]
       IN  /\ rows = vayner_keyword_table_rows
           /\ average.keyword = <<"A", "v", "e", "r", "a", "g", "e">>
           /\ IsMeanOf(average.performance,
                       [i \in 1..Len(rows) |-> rows[i].performance])
           /\ IsMeanOf(average.sov, [i \in 1..Len(rows) |-> rows[i].sov])

C21_ReturnsToIdle ==
    /\ [][\A s \in StreamIds, name \in Identities :
             (/\ s > 1
              /\ tasks[s - 1].status \in {"done", "failed", "cancelled"}
              /\ SubmitCall(s, name)
              /\ \E i \in 1..Len(name) : name[i] \notin SpaceChars)
                => streams'[s].pc = "placeholder"]_vars
    /\ [][\A s \in StreamIds :
             RunSetup(s, "ok") =>
                /\ tasks[s].status = "none"
                /\ tasks'[s].status = "running"
                /\ vayner_current_task' = s]_vars
    /\ [](\A s \in StreamIds :
             (/\ s > 1
              /\ tasks[s - 1].status \in {"done", "failed", "cancelled"}
              /\ streams[s - 1].pc \in {"ended", "raised"}
              /\ streams[s].pc = "idle")
                => ENABLED SubmitCall(s, PaddedName))
    /\ [](\A s \in StreamIds :
             (s > 1 /\ streams[s].pc = "first")
                => ENABLED (RunSetup(s, "ok") /\ tasks'[s].status = "running"))

\* the first run has been cancelled by handle_stop and its stream has ended
\* by the CancelledError; the second submit has started a new task
C21_StartedAgain ==
    /\ tasks[1].status = "cancelled"
    /\ streams[1].pc = "raised"
    /\ stopper.pc = "idle"
    /\ tasks[2].status = "running"
    /\ streams[2].pc = "polling"
    /\ vayner_current_task = 2

\* C22: the callbacks only append: every step callback and every done
\* callback leaves the business, keyword and ranking buckets, the keyword
\* rows and the screenshots with what they held before as a prefix of what
\* they hold after.
C22_MonotoneAggregation ==
    [][(\E s \in StreamIds :
          \/ \E out \in StepOutputs : TaskStep(s, out)
          \/ \E status \in {"done", "failed", "cancelled"},
                final_result \in FinalResults :
                TaskEnd(s, status, final_result))
       => /\ IsPrefix(vayner_business_info, vayner_business_info')
          /\ IsPrefix(vayner_keyword_data, vayner_keyword_data')
          /\ IsPrefix(vayner_ranking_data, vayner_ranking_data')
          /\ IsPrefix(vayner_keyword_table_rows, vayner_keyword_table_rows')
          /\ IsPrefix(vayner_screenshots, vayner_screenshots')]_vars

\* two steps have added to what the first of them had stored: the business
\* bucket holds a note and the page URL, the keyword bucket two notes
C22_Accumulated ==
    /\ nsteps = 2
    /\ Len(vayner_screenshots) = 1
    /\ Len(vayner_business_info) = 2
    /\ Len(vayner_keyword_data) = 2
    /\ Len(vayner_ranking_data) = 1
    /\ Len(vayner_keyword_table_rows) = 2

(***************************************************************************)
(* C23: an accepted submit empties the three note buckets, the keyword     *)
(* rows and the screenshots and sets the identity to the stripped name; it *)
(* leaves the registry, the agent and task handles and the transcript as   *)
(* they were, and the start of the run then only appends the two run-start *)
(* messages to the transcript.                                             *)
(***************************************************************************)
C23_SubmitResetsRunOnly ==
    [][\A s \in StreamIds :
          /\ (streams[s].pc = "idle" /\ streams'[s].pc = "placeholder")
                => /\ vayner_screenshots' = <<>>
                   /\ vayner_business_info' = <<>>
                   /\ vayner_keyword_data' = <<>>
                   /\ vayner_ranking_data' = <<>>
                   /\ vayner_keyword_table_rows' = <<>>
                   /\ vayner_current_business' = Strip(streams'[s].name)
                   /\ vayner_current_business' # <<>>
                   /\ UNCHANGED <<registryVars, vayner_agent,
                                  vayner_current_task, vayner_chat_history>>
          /\ (streams[s].pc = "placeholder" /\ streams'[s].pc = "first")
                => /\ vayner_chat_history' =
                         vayner_chat_history
                           \o << ChatEntry("user", "research",
                                           vayner_current_business),
                                 ChatEntry("assistant", "starting",
                                           vayner_current_business) >>
                   /\ UNCHANGED <<registryVars, vayner_agent,
                                  vayner_current_task, factVars,
                                  vayner_current_business>>]_vars

\* the second run has started after a first run that reported steps: the
\* lists are empty again, the agent of the first run and the transcript of
\* the first run are still there
C23_ResetAfterRun ==
    /\ streams[2].pc = "first"
    /\ nsteps > 0
    /\ vayner_agent.created
    /\ vayner_current_task = 1
    /\ vayner_screenshots = <<>>
    /\ vayner_business_info = <<>>
    /\ vayner_keyword_data = <<>>
    /\ vayner_keyword_table_rows = <<>>
    /\ \E i \in 1..Len(vayner_chat_history) :
          vayner_chat_history[i].kind = "step"
    /\ vayner_chat_history[Len(vayner_chat_history)].kind = "starting"

(***************************************************************************)
(* C24: a textual final result is formatted by the table branch of the     *)
(* result section (a table, or the text shown verbatim when no header row  *)
(* is found) exactly when it contains the pipe delimiter or one of its     *)
(* lines contains "keyword" together with "performance" or together with   *)
(* "sov", whatever the case; any other text is formatted as paragraphs.    *)
(***************************************************************************)
\* the detection rule in the words of the specification
SaysTabular(text) ==
    LET lines == Split(Strip(text), "\n")
    IN  \/ Contains(text, <<"|">>)
        \/ \E i \in 1..Len(lines) :
              /\ Contains(Lower(lines[i]), W_keyword)
              /\ \/ Contains(Lower(lines[i]), W_performance)
                 \/ Contains(Lower(lines[i]), W_sov)

C24_TableDetection ==
    [][\A final_result \in FinalResults :
          (final_result.kind = "str" /\ TaskEnd(1, "done", final_result))
          => IF SaysTabular(final_result.text)
             THEN vayner_pdf_report'.result.kind \in {"table", "pre"}
             ELSE vayner_pdf_report'.result.kind = "paragraphs"]_vars

(***************************************************************************)
(* C25: when the text of the final result has a header line                *)
(* keyword|performance|sov, every pipe-delimited row after it with three   *)
(* non-empty cells that is not the separator row has its keyword among the *)
(* keyword rows after the done callback (compared without case), whether   *)
(* or not a separator row follows the header.                              *)
(***************************************************************************)
\* the data rows of a table in the words of the specification
SaysDataRows(text) ==
    LET lines == StrippedLines(text)
        t == TableStart(lines)
    IN  IF t = 0 THEN {}
        ELSE {Cells(lines[i]) : i \in
                {j \in (t + 1)..Len(lines) :
                   /\ StartsWith(lines[j], <<"|">>)
                   /\ ~Contains(lines[j], <<"-", "-", "-">>)
                   /\ Len(Cells(lines[j])) >= 3
                   /\ \A c \in 1..3 : Cells(lines[j])[c] # <<>>}}

C25_SeparatorOptional ==
    [][\A final_result \in FinalResults :
          (final_result.kind = "str" /\ TaskEnd(1, "done", final_result))
          => \A cells \in SaysDataRows(final_result.text) :
                \E i \in 1..Len(vayner_keyword_table_rows') :
                   Lower(vayner_keyword_table_rows'[i].keyword) = Lower(cells[1])]_vars

(***************************************************************************)
(* C26: rendering gives a document for every final result: the placeholder *)
(* for an absent or empty one, the items of a list, the pairs of a         *)
(* mapping, a table with the rows as they are for a text with a header     *)
(* line (also when a row has fewer cells than the header), and the text    *)
(* itself, verbatim, for a text that has the pipe delimiter but no header  *)
(* line.                                                                   *)
(***************************************************************************)
\* no line of the text has "keyword" in it, so no line can be a header
NoHeaderLine(text) == ~Contains(Lower(text), W_keyword)

C26_RenderDegrades ==
    [][\A final_result \in FinalResults :
          TaskEnd(1, "done", final_result)
          => LET section == vayner_pdf_report'.result
             IN  /\ section.kind \in {"placeholder", "table", "pre",
                                      "paragraphs", "list", "dict"}
                 /\ ~Truthy(final_result) => section.kind = "placeholder"
                 /\ (final_result.kind = "list" /\ Truthy(final_result))
                       => /\ section.kind = "list"
                          /\ section.items = final_result.items
                 /\ (final_result.kind = "dict" /\ Truthy(final_result))
                       => /\ section.kind = "dict"
                          /\ section.pairs = final_result.pairs
                 /\ (/\ final_result.kind = "str"
                     /\ Contains(final_result.text, <<"|">>)
                     /\ NoHeaderLine(final_result.text))
                       => /\ section.kind = "pre"
                          /\ section.text = final_result.text
                 /\ (/\ final_result.kind = "str"
                     /\ Contains(final_result.text, <<"|">>)
                     /\ ~NoHeaderLine(final_result.text))
                       => /\ section.kind = "table"
                          /\ section.header # <<>>]_vars

\* the run has ended with the final result "a|b" and the report shows that
\* text verbatim
C26_ShownVerbatim ==
    /\ tasks[1].status = "done"
    /\ vayner_pdf_report.result.kind = "pre"
    /\ vayner_pdf_report.result.text = <<"a", "|", "b">>

(***************************************************************************)
(* C27: whatever steps the agent has reported, none of the three note      *)
(* buckets (business info, keyword notes, ranking notes) holds the same    *)
(* string twice.                                                           *)
(***************************************************************************)
NoRepeat(bucket) ==
    \A i, j \in 1..Len(bucket) : bucket[i] = bucket[j] => i = j

C27_NoDuplicateNotes ==
    /\ NoRepeat(vayner_business_info)
    /\ NoRepeat(vayner_keyword_data)
    /\ NoRepeat(vayner_ranking_data)

\* the step with the first screenshot has been reported twice, so its
\* thought was offered to the keyword bucket twice, and is there once
C27_OfferedTwice ==
    /\ nsteps = 2
    /\ Len(vayner_screenshots) = 2
    /\ vayner_keyword_data = <<RowThought>>

(***************************************************************************)
(* C28: after a step, a thought or result of the step is in the keyword    *)
(* bucket iff it contains one of keyword/performance/score, in the ranking *)
(* bucket iff it contains one of ranking/rank/geography/location, and in   *)
(* the business bucket iff it contains "business" and one of               *)
(* name/address/info/details/about, each test without regard to case and   *)
(* independently of the others.                                            *)
(***************************************************************************)
InBucket(bucket, text) == \E i \in 1..Len(bucket) : bucket[i] = text

SaysKeyword(text) ==
    ContainsAny(Lower(text), {W_keyword, W_performance, W_score})

SaysRanking(text) ==
    ContainsAny(Lower(text), {W_ranking, W_rank, W_geography, W_location})

SaysBusiness(text) ==
    /\ Contains(Lower(text), W_business)
    /\ ContainsAny(Lower(text), {W_name, W_address, W_info, W_details, W_about})

Fragments(out) ==
    {out.actions[k].thought : k \in 1..Len(out.actions)}
       \cup {out.actions[k].result : k \in 1..Len(out.actions)}

C28_BucketClassification ==
    [][\A out \in StepOutputs :
          TaskStep(1, out)
          => \A text \in Fragments(out) \ {<<>>} :
                /\ InBucket(vayner_keyword_data', text) <=> SaysKeyword(text)
                /\ InBucket(vayner_ranking_data', text) <=> SaysRanking(text)
                /\ InBucket(vayner_business_info', text) <=> SaysBusiness(text)]_vars

(***************************************************************************)
(* C29: every tick of the polling loop, while the task is running, leaves  *)
(* the update queue empty, also a tick that finds the transcript not grown *)
(* and takes no live view.  Such a tick yields nothing and changes         *)
(* nothing, so the queue it leaves is the queue it finds: the statement is *)
(* about the value of the queue after a tick without live view, computed   *)
(* from the state the tick starts in as the loop computes it.              *)
(***************************************************************************)
\* the queue after a tick of stream s on which no live view is taken
QueueAfterQuietTick(s) ==
    IF Len(vayner_chat_history) > streams[s].last_chat_len
    THEN DrainAll(update_queue, EmptyDict, <<>>).queue
    ELSE update_queue

C30_RefreshTracksGrowth ==
    [][\A s \in StreamIds, out \in SessionStepOutputs :
          (TaskStep(s, out) /\ streams[s].pc = "polling")
          => /\ Len(vayner_chat_history') = Len(vayner_chat_history) + 1
             /\ Len(vayner_chat_history') > streams'[s].last_chat_len]_vars

(***************************************************************************)
(* C31: a live screenshot that fails does not end the polling: the tick    *)
(* on which take_screenshot() raises yields no live-view update, the       *)
(* stream stays in the polling loop as long as the task runs, and a stream *)
(* that polls ends with its terminal snapshot.                             *)
(***************************************************************************)
C31_ShotFailureSkipped ==
    /\ [][\A s \in StreamIds :
             /\ (streams[s].pc = "polling" /\ tasks[s].status = "running")
                   => streams'[s].pc = "polling"
             /\ PollTick(s, "raises")
                   => /\ Len(yielded'.updates) = 1
                      /\ Sets(yielded'.updates[1], "chatbot", "value")
                      /\ Comp("browser_view") \notin DOMAIN yielded'.updates[1]
                      /\ tasks'[s].status = "running"]_vars
    /\ (streams[1].pc = "polling")
          ~> (streams[1].pc = "ended" /\ streams[1].terminal)

\* a tick of the running task has shown the transcript with a step in it
\* and no live view (take_screenshot() raised or returned nothing), and the
\* stream is still in the loop
C31_TickWithoutLiveView ==
    /\ streams[1].pc = "polling"
    /\ tasks[1].status = "running"
    /\ streams[1].last_chat_len > 2
    /\ streams[1].last_chat_len = Len(vayner_chat_history)
    /\ yielded.by = "submit"
    /\ Len(yielded.updates) = 1
    /\ Sets(yielded.updates[1], "chatbot", "value")
    /\ Comp("browser_view") \notin DOMAIN yielded.updates[1]

(***************************************************************************)
(* C32: a fragment carries the report as it was rendered at its push.  A   *)
(* push appends to the queue the rendering of the identity, facts and rows *)
(* of that moment and leaves the fragments queued before as they are; a    *)
(* step callback that adds facts or rows leaves every queued fragment as   *)
(* it is; and a drain delivers the queued fragments as they are.           *)
(***************************************************************************)
C32_FragmentIsSnapshot ==
    [][/\ (Len(update_queue') = Len(update_queue) + 1)
            => /\ IsPrefix(update_queue, update_queue')
               /\ update_queue'[Len(update_queue')][Comp("pdf_report")].value =
                     GenerateLiveReport(vayner_current_business,
                                        vayner_business_info,
                                        vayner_keyword_data,
                                        vayner_ranking_data,
                                        vayner_screenshots,
                                        vayner_keyword_table_rows, NoneResult)
       /\ \A out \in StepOutputs :
             TaskStep(1, out) => update_queue' = update_queue
       /\ \A shot \in ShotOutcomes :
             PollTick(1, shot) => yielded'.popped = update_queue]_vars

\* a fragment pushed before any row was known has been drained after a step
\* added rows: it shows no keyword table, the report of the facts as they
\* are now would show one
C32_DrainedAfterStep ==
    /\ streams[1].pc = "polling"
    /\ streams[1].last_chat_len = Len(vayner_chat_history)
    /\ vayner_keyword_table_rows # <<>>
    /\ Len(yielded.popped) >= 1
    /\ yielded.popped[1][Comp("pdf_report")].value.keyword_table = <<>>
    /\ yielded.popped[1][Comp("pdf_report")].value.cover = vayner_current_business

(***************************************************************************)
(* C33: handle_stop called when there is no agent, no task handle, or a    *)
(* task that is already done yields one empty update and changes nothing   *)
(* else: no stop is requested of the agent, no task is cancelled, and the  *)
(* registry, the session state, the streams and the other handlers are     *)
(* left as they are.                                                       *)
(***************************************************************************)
Running ==
    /\ vayner_agent.created
    /\ vayner_current_task # 0
    /\ tasks[vayner_current_task].status = "running"

C33_StopOutsideRunning ==
    [][\A stop_raises \in BOOLEAN :
          (StopCall(stop_raises) /\ ~Running)
          => /\ yielded' = Yield("stop", 0, <<EmptyDict>>, <<>>)
             /\ UNCHANGED <<registryVars, sessionVars, tasks, streams, stopper,
                            clearer, nsteps>>]_vars

\* stop has been pressed after the run was over: the empty update, the
\* task done and never asked to cancel, the agent never asked to stop
C33_StoppedWhenDone ==
    /\ yielded = Yield("stop", 0, <<EmptyDict>>, <<>>)
    /\ vayner_current_task = 1
    /\ tasks[1].status = "done"
    /\ ~tasks[1].cancel_requested
    /\ ~vayner_agent.stopped
    /\ stopper.pc = "idle"

(***************************************************************************)
(* C34: whenever handle_clear finds a running task, the task has been      *)
(* asked to cancel when the call goes on, also when the cooperative stop   *)
(* request of the agent raised.                                            *)
(***************************************************************************)
C34_ClearCancels ==
    [][\A stop_raises \in BOOLEAN :
          (/\ ClearCall(stop_raises)
           /\ vayner_current_task # 0
           /\ tasks[vayner_current_task].status = "running")
          => tasks'[vayner_current_task].cancel_requested]_vars

(***************************************************************************)
(* C35: when a drain merges several queued fragments for the same slot     *)
(* into one update, the update carries for that slot the value of the      *)
(* fragment pushed last; the slots of the update that no fragment          *)
(* addresses keep their values.                                            *)
(***************************************************************************)
C35_LastPushWins ==
    [][\A shot \in ShotOutcomes :
          (PollTick(1, shot) /\ update_queue # <<>>)
          => LET merged == yielded'.updates[1]
                 last == update_queue[Len(update_queue)]
             IN  /\ Comp("pdf_report") \in DOMAIN merged
                 /\ merged[Comp("pdf_report")] = last[Comp("pdf_report")]
                 /\ DOMAIN merged \subseteq {Comp("pdf_report"), Comp("chatbot"),
                                              Comp("browser_view")}
                 /\ Comp("chatbot") \in DOMAIN merged
                       => merged[Comp("chatbot")] = UValue(vayner_chat_history)
                 /\ Comp("browser_view") \in DOMAIN merged
                       => merged[Comp("browser_view")]
                             = UValueVisible("live view", TRUE)]_vars

\* one drain has merged two fragments with different reports into the
\* transcript refresh, and the report of the update is the second one's
C35_MergedTwo ==
    /\ Len(yielded.popped) = 2
    /\ yielded.popped[1][Comp("pdf_report")].value
          # yielded.popped[2][Comp("pdf_report")].value
    /\ Sets(yielded.updates[1], "chatbot", "value")
    /\ yielded.updates[1][Comp("pdf_report")].value
          = yielded.popped[2][Comp("pdf_report")].value

C37_PollingEnds ==
    /\ [][(PollExit(1) /\ tasks[1].status = "cancelled")
             => /\ streams'[1].pc = "raised"
                /\ UNCHANGED <<yielded, sessionVars>>]_vars
    /\ [][streams[1].pc \in {"ended", "raised"} => streams'[1].pc = streams[1].pc]_vars
    /\ (streams[1].pc = "polling" /\ tasks[1].cancel_requested)
          ~> (streams[1].pc \in {"ended", "raised"})

\* clear has cancelled the task, waited for it and reset the session, and
\* the stream of the run has ended without a further snapshot
C37_EndedAfterClear ==
    /\ streams[1].pc = "raised"
    /\ tasks[1].status = "cancelled"
    /\ tasks[1].cancel_requested
    /\ clearer.pc = "idle"
    /\ yielded.by = "clear"

(***************************************************************************)
(* C38: the document depends on the identity, the keyword rows and the     *)
(* final result only.  The report that the done callback renders from the  *)
(* notes and screenshots of the run is the document rendered from the same *)
(* identity, rows and final result with no business note, no keyword note, *)
(* no ranking note and no screenshot; and so is the report of a step       *)
(* output rendered with and without the notes and the screenshot of any    *)
(* step.                                                                   *)
(***************************************************************************)
C38_NotesDoNotShow ==
    [][/\ \A status \in {"done", "failed"}, final_result \in FinalResults :
             TaskEnd(1, status, final_result) =>
                vayner_pdf_report'
                   = GenerateLiveReport(vayner_current_business', <<>>, <<>>,
                                        <<>>, <<>>, vayner_keyword_table_rows',
                                        final_result)
       /\ \A out \in StepOutputs :
             TaskStep(1, out) =>
                GenerateLiveReport(vayner_current_business,
                                   vayner_business_info', vayner_keyword_data',
                                   vayner_ranking_data', vayner_screenshots',
                                   vayner_keyword_table_rows, NoneResult)
                   = GenerateLiveReport(vayner_current_business,
                                        vayner_business_info, vayner_keyword_data,
                                        vayner_ranking_data, vayner_screenshots,
                                        vayner_keyword_table_rows, NoneResult)]_vars

\* the run is done with business, keyword and ranking notes and a
\* screenshot collected, and its report is the one rendered without them
C38_RenderedWithNotes ==
    /\ tasks[1].status = "done"
    /\ vayner_business_info # <<>>
    /\ vayner_keyword_data # <<>>
    /\ vayner_ranking_data # <<>>
    /\ vayner_screenshots # <<>>
    /\ vayner_keyword_table_rows # <<>>
    /\ vayner_pdf_report.result.kind = "table"
    /\ vayner_pdf_report
          = GenerateLiveReport(vayner_current_business, <<>>, <<>>, <<>>, <<>>,
                               vayner_keyword_table_rows, StrResult(FinalTable))


=============================================================================
